---------------------------- MODULE Spec2Model ----------------------------
(***************************************************************************)
(* A model of jsonmanu: Get / Put over decoded JSON trees addressed by a   *)
(* JSONPath-like expression, and Map, which copies values between two      *)
(* trees through chains of transformers.                                   *)
(*                                                                         *)
(* Go maps and slices are references, so the trees live in a heap of       *)
(* cells; a value is either a scalar or a reference into the heap.  Every  *)
(* operation that can allocate or write threads the heap through and       *)
(* returns it in its result record, together with the outcome: "ok",       *)
(* "err" (a returned error, with its kind) or "panic" (a Go run-time       *)
(* panic, e.g. a failed type assertion).                                   *)
(***************************************************************************)
EXTENDS Integers, Sequences, FiniteSets, TLC

(***************************************************************************)
(* Values.  One record shape for every kind, so that values of different   *)
(* kinds can be compared.                                                  *)
(*   k = "null"   the nil interface value (JSON null)                      *)
(*   k = "num"    a number, n                                              *)
(*   k = "str"    a string, s (a sequence of one-character strings)        *)
(*   k = "obj"    a map[string]any, n its cell (0: the nil map)            *)
(*   k = "arr"    a []any: cell n, window [lo, hi) (n = 0: the nil slice)  *)
(*   k = "strs"   a []string (what strings.Split returns), like "arr"      *)
(*   k = "absent" no value: the key is not in the map                      *)
(***************************************************************************)
\* The key names of the model (strings, as sequences of characters).  "*" can
\* become a key too: the structure pre-pass of Put creates it.
Keys == {<<"a">>, <<"b">>}

AllKeys == Keys \cup {<<"*">>}

\* F applied to x: F may use the value several times.
With(x, F(_)) == F(x)

mkVal(k, n, s, lo, hi) == [k |-> k, n |-> n, s |-> s, lo |-> lo, hi |-> hi]

Null == mkVal("null", 0, <<>>, 0, 0)

Absent == mkVal("absent", 0, <<>>, 0, 0)

Num(i) == mkVal("num", i, <<>>, 0, 0)

Str(s) == mkVal("str", 0, s, 0, 0)

ObjRef(a) == mkVal("obj", a, <<>>, 0, 0)

NilMap == ObjRef(0)

ArrRef(a, lo, hi) == mkVal("arr", a, <<>>, lo, hi)

NilSlice == ArrRef(0, 0, 0)

StrsRef(a, lo, hi) == mkVal("strs", a, <<>>, lo, hi)

EmptyMap == [x \in AllKeys |-> Absent]

isMap(v) == v.k = "obj"

isSlice(v) == v.k \in {"arr", "strs"}

isMapOrSlice(v) == isMap(v) \/ isSlice(v)

isString(v) == v.k = "str"

(***************************************************************************)
(* Heap access.  The heap is a sequence of cells; allocation appends.      *)
(***************************************************************************)
sliceLen(v) == v.hi - v.lo

sliceAt(h, v, i) == h[v.n].e[v.lo + i + 1]

sliceElems(h, v) == [i \in 1..sliceLen(v) |-> sliceAt(h, v, i - 1)]

sliceStore(h, v, i, x) == [h EXCEPT ![v.n].e[v.lo + i + 1] = x]

mapLookup(h, m, key) ==
    IF m.n = 0 \/ key \notin AllKeys THEN Absent ELSE h[m.n].m[key]

mapStore(h, m, key, x) == [h EXCEPT ![m.n].m[key] = x]

allocObj(h, m) == [h |-> Append(h, [t |-> "obj", m |-> m, e |-> <<>>]), v |-> ObjRef(Len(h) + 1)]

allocArr(h, e) ==
    IF e = <<>> THEN [h |-> h, v |-> NilSlice]
    ELSE [h |-> Append(h, [t |-> "arr", m |-> EmptyMap, e |-> e]), v |-> ArrRef(Len(h) + 1, 0, Len(e))]

(***************************************************************************)
(* Outcomes of the operations.                                             *)
(***************************************************************************)
Ok(h, v) == [st |-> "ok", et |-> "", v |-> v, h |-> h]

Err(h, et) == [st |-> "err", et |-> et, v |-> Null, h |-> h]

Panic(h) == [st |-> "panic", et |-> "", v |-> Null, h |-> h]

(***************************************************************************)
(* Strings are sequences of characters.  Chars lists the characters the    *)
(* model uses in ASCII order, so that CharOrd orders them as Go's string   *)
(* comparison does.                                                        *)
(***************************************************************************)
Chars == << " ", "!", "$", "(", ")", "*", ",", "-", ".",
            "0", "1", "2", "3", "4", "5", "6", "7", "8", "9",
            ":", "<", "=", ">", "?", "@", "[", "]", "_",
            "a", "b", "i", "l", "m", "n", "p", "x" >>

Digits == {"0", "1", "2", "3", "4", "5", "6", "7", "8", "9"}

CharOrd(c) == CHOOSE i \in 1..Len(Chars) : Chars[i] = c

RECURSIVE strLess(_, _)
strLess(s1, s2) ==
    IF s2 = <<>> THEN FALSE
    ELSE IF s1 = <<>> THEN TRUE
    ELSE IF Head(s1) = Head(s2) THEN strLess(Tail(s1), Tail(s2))
    ELSE CharOrd(Head(s1)) < CharOrd(Head(s2))

RECURSIVE digitsValue(_, _)
digitsValue(s, acc) ==
    IF s = <<>> THEN acc ELSE digitsValue(Tail(s), 10 * acc + CharOrd(Head(s)) - CharOrd("0"))

\* strconv.ParseFloat on the strings that the model converts, which are made
\* of digits, letters and commas: it succeeds exactly on the non-empty strings
\* of decimal digits (none of them has a sign, a point, an exponent or a
\* prefix, or spells "nan").
parseFloatOk(s) == s # <<>> /\ \A i \in 1..Len(s) : s[i] \in Digits

parseFloat(s) == digitsValue(s, 0)

\* toFloat64: ok and value of the conversion of any value to float64.
toFloat64Ok(v) == v.k = "num" \/ (v.k = "str" /\ parseFloatOk(v.s))

toFloat64(v) == IF v.k = "num" THEN v.n ELSE parseFloat(v.s)

(***************************************************************************)
(* Path segments ("nodes").  The name <<"*">> is the wildcard and the      *)
(* empty name <<>> the segment that ".." leaves behind.                    *)
(***************************************************************************)
mkNode(type, name, indices, start, end, key, op, value) ==
    [type |-> type, name |-> name, indices |-> indices, start |-> start,
     end |-> end, key |-> key, op |-> op, value |-> value]

Field(name) == mkNode("node", name, <<>>, 0, 0, <<>>, <<>>, Null)

IndexedArray(name, indices) == mkNode("indexed", name, indices, 0, 0, <<>>, <<>>, Null)

SlicedArray(name, start, end) == mkNode("sliced", name, <<>>, start, end, <<>>, <<>>, Null)

FilteredArray(name, key, op, value) == mkNode("filtered", name, <<>>, 0, 0, key, op, value)

isArrayNode(n) == n.type \in {"indexed", "sliced", "filtered"}

mapHasKey(h, m, key) == mapLookup(h, m, key) # Absent

\* validateNodeData returns the kind of the error, "" for none.
validateNodeData(n, h, data) ==
    IF data.n = 0 THEN "NotMap"
    ELSE IF ~mapHasKey(h, data, n.name) THEN "KeyNotFound"
    ELSE IF isArrayNode(n) /\ ~isSlice(mapLookup(h, data, n.name)) THEN "ValueNotArray"
    ELSE ""

nodeGet(n, h, data) ==
    LET err == validateNodeData(n, h, data)
    IN  IF err # "" THEN Err(h, err) ELSE Ok(h, mapLookup(h, data, n.name))

nodePut(n, h, data, value) ==
    LET err == validateNodeData(n, h, data)
    IN  IF err # "" /\ err # "KeyNotFound" THEN Err(h, err)
        ELSE Ok(mapStore(h, data, n.name, value), Null)

\* The elements of value at the listed indices that are in range, in order.
RECURSIVE pickIndices(_, _, _)
pickIndices(h, value, indices) ==
    IF indices = <<>> THEN <<>>
    ELSE LET i == Head(indices)
         IN  IF i < 0 \/ i >= sliceLen(value) THEN pickIndices(h, value, Tail(indices))
             ELSE <<sliceAt(h, value, i)>> \o pickIndices(h, value, Tail(indices))

arrayIndexedNodeGet(n, h, data) ==
    LET err == validateNodeData(n, h, data)
        value == mapLookup(h, data, n.name)
    IN  IF err # "" THEN Err(h, err)
        ELSE IF n.indices = <<>> THEN Ok(h, value)
        ELSE IF value.k # "arr" THEN Panic(h)
        ELSE LET a == allocArr(h, pickIndices(h, value, n.indices))
             IN  Ok(a.h, a.v)

RECURSIVE storeIndices(_, _, _, _)
storeIndices(h, value, indices, newVal) ==
    IF indices = <<>> THEN h
    ELSE LET i == Head(indices)
         IN  IF i < 0 \/ i >= sliceLen(value)
             THEN storeIndices(h, value, Tail(indices), newVal)
             ELSE storeIndices(sliceStore(h, value, i, newVal), value, Tail(indices), newVal)

\* The indexed put taking no index for every index, as the get does.
arrayIndexedNodePutAll(n, h, data, newVal) ==
    LET err == validateNodeData(n, h, data)
        value == mapLookup(h, data, n.name)
    IN  IF err # "" THEN Err(h, err)
        ELSE IF value.k # "arr" THEN Panic(h)
        ELSE IF n.indices = <<>>
        THEN Ok(storeIndices(h, value, [i \in 1..sliceLen(value) |-> i - 1], newVal), Null)
        ELSE Ok(storeIndices(h, value, n.indices, newVal), Null)

arrayIndexedNodePut(n, h, data, newVal) ==
    LET err == validateNodeData(n, h, data)
        value == mapLookup(h, data, n.name)
    IN  IF err # "" THEN Err(h, err)
        ELSE IF n.indices = <<>> THEN Ok(h, Null)
        ELSE IF value.k # "arr" THEN Panic(h)
        ELSE Ok(storeIndices(h, value, n.indices, newVal), Null)

\* Go's slice expression value[lo:hi] on a []any: it panics unless
\* 0 <= lo <= hi <= cap(value); the result shares the backing array.
\* The bounds of a slice expression value[lo:hi] are within the capacity.
resliceOk(h, value, lo, hi) ==
    0 <= lo /\ lo <= hi /\ hi <= (IF value.n = 0 THEN 0 ELSE Len(h[value.n].e) - value.lo)

reslice(value, lo, hi) ==
    IF value.n = 0 THEN NilSlice ELSE ArrRef(value.n, value.lo + lo, value.lo + hi)

\* The bounds [lo, hi) that a sliced node resolves to on value.
slicedLo(n) == n.start

slicedHi(n, value) == IF n.end # 0 THEN n.end ELSE sliceLen(value)

arraySlicedNodeGet(n, h, data) ==
    LET err == validateNodeData(n, h, data)
        value == mapLookup(h, data, n.name)
    IN  IF err # "" THEN Err(h, err)
        ELSE IF n.start = 0 /\ n.end = 0 THEN Ok(h, data)
        ELSE IF value.k # "arr" THEN Panic(h)
        ELSE IF ~resliceOk(h, value, slicedLo(n), slicedHi(n, value)) THEN Panic(h)
        ELSE Ok(h, reslice(value, slicedLo(n), slicedHi(n, value)))

RECURSIVE storeAll(_, _, _, _)
storeAll(h, value, i, newVal) ==
    IF i >= sliceLen(value) THEN h
    ELSE storeAll(sliceStore(h, value, i, newVal), value, i + 1, newVal)

arraySlicedNodePut(n, h, data, newVal) ==
    LET err == validateNodeData(n, h, data)
        value == mapLookup(h, data, n.name)
    IN  IF err # "" THEN Err(h, err)
        ELSE IF n.start = 0 /\ n.end = 0 THEN Ok(h, Null)
        ELSE IF value.k # "arr" THEN Panic(h)
        ELSE IF ~resliceOk(h, value, slicedLo(n), slicedHi(n, value)) THEN Panic(h)
        ELSE Ok(storeAll(h, reslice(value, slicedLo(n), slicedHi(n, value)), 0, newVal), Null)

assertCondition(val1, val2, op) ==
    LET areFloats == toFloat64Ok(val1) /\ toFloat64Ok(val2)
        f1 == toFloat64(val1)
        f2 == toFloat64(val2)
        areStrings == isString(val1) /\ isString(val2)
    IN  CASE op = <<"<">> -> IF areFloats THEN f1 < f2
                          ELSE areStrings /\ strLess(val1.s, val2.s)
          [] op = <<">">> -> IF areFloats THEN f1 > f2
                          ELSE areStrings /\ strLess(val1.s, val2.s)
          [] op = <<"<", "=">> -> IF areFloats THEN f1 <= f2
                          ELSE areStrings /\ ~strLess(val2.s, val1.s)
          [] op = <<">", "=">> -> IF areFloats THEN f1 >= f2
                          ELSE areStrings /\ ~strLess(val1.s, val2.s)
          [] op = <<"=", "=">> -> IF areFloats THEN f1 = f2
                          ELSE areStrings /\ val1.s = val2.s
          [] op = <<"!", "=">> -> IF areFloats THEN f1 # f2
                          ELSE areStrings /\ val1.s # val2.s
          [] OTHER -> FALSE

\* The filter condition of the node on the value currValue of the item's key.
filterSelects(n, currValue) ==
    n.op = <<>> \/ n.value = Null \/ assertCondition(currValue, n.value, n.op)

\* The loop of arrayFilteredNode.get from item i on; acc holds the items kept.
RECURSIVE filterItems(_, _, _, _, _)
filterItems(n, h, value, i, acc) ==
    IF i >= sliceLen(value) THEN Ok(h, acc)
    ELSE LET item == sliceAt(h, value, i)
         IN  IF item.k # "obj" THEN Panic(h)
             ELSE IF mapLookup(h, item, n.key) # Absent
                     /\ filterSelects(n, mapLookup(h, item, n.key))
             THEN filterItems(n, h, value, i + 1, Append(acc, item))
             ELSE filterItems(n, h, value, i + 1, acc)

arrayFilteredNodeGet(n, h, data) ==
    LET err == validateNodeData(n, h, data)
        value == mapLookup(h, data, n.name)
    IN  IF err # "" THEN Err(h, err)
        ELSE IF value.k # "arr" THEN Panic(h)
        ELSE LET r == filterItems(n, h, value, 0, <<>>)
             IN  IF r.st # "ok" THEN Panic(h)
                 ELSE LET a == allocArr(h, r.v) IN Ok(a.h, a.v)

\* The loop of arrayFilteredNode.put from item i on.
RECURSIVE filterStore(_, _, _, _, _)
filterStore(n, h, value, i, newVal) ==
    IF i >= sliceLen(value) THEN Ok(h, Null)
    ELSE LET item == sliceAt(h, value, i)
         IN  IF item.k # "obj" THEN Panic(h)
             ELSE IF mapLookup(h, item, n.key) # Absent
                     /\ filterSelects(n, mapLookup(h, item, n.key))
             THEN filterStore(n, mapStore(h, item, n.key, newVal), value, i + 1, newVal)
             ELSE filterStore(n, h, value, i + 1, newVal)

arrayFilteredNodePut(n, h, data, newVal) ==
    LET err == validateNodeData(n, h, data)
        value == mapLookup(h, data, n.name)
    IN  IF err # "" THEN Err(h, err)
        ELSE IF value.k # "arr" THEN Panic(h)
        ELSE filterStore(n, h, value, 0, newVal)

\* n.get(data) and n.put(data, value): dispatch on the dynamic type of the node.
get(n, h, data) ==
    CASE n.type = "node" -> nodeGet(n, h, data)
      [] n.type = "indexed" -> arrayIndexedNodeGet(n, h, data)
      [] n.type = "sliced" -> arraySlicedNodeGet(n, h, data)
      [] n.type = "filtered" -> arrayFilteredNodeGet(n, h, data)

put(n, h, data, value) ==
    CASE n.type = "node" -> nodePut(n, h, data, value)
      [] n.type = "indexed" -> arrayIndexedNodePut(n, h, data, value)
      [] n.type = "sliced" -> arraySlicedNodePut(n, h, data, value)
      [] n.type = "filtered" -> arrayFilteredNodePut(n, h, data, value)

(***************************************************************************)
(* Deep search.  Go iterates a map in an unspecified order: keyOrder, a    *)
(* sequence listing AllKeys in some order, is the order of one call.       *)
(***************************************************************************)
KeyOrders == {o \in [1..Cardinality(AllKeys) -> AllKeys] :
                 \A i, j \in DOMAIN o : i # j => o[i] # o[j]}

DefaultKeyOrder == CHOOSE o \in KeyOrders : TRUE

\* iterMapKeys: the keys of the map m, in the order keyOrder.
iterMapKeys(h, m, keyOrder) ==
    SelectSeq(keyOrder, LAMBDA key : mapHasKey(h, m, key))

\* mapGetDeep returns a nested []any: each entry is either a value found under
\* key (a leaf) or the non-nil result of the search in a child (sub).
Leaf(v) == [leaf |-> TRUE, v |-> v, sub |-> <<>>]

Sub(entries) == [leaf |-> FALSE, v |-> Null, sub |-> entries]

Found(entries) == [panic |-> FALSE, r |-> entries]

DeepPanic == [panic |-> TRUE, r |-> <<>>]

RECURSIVE mapGetDeep(_, _, _, _)
RECURSIVE mapGetDeepKeys(_, _, _, _, _, _)
RECURSIVE mapGetDeepItems(_, _, _, _, _, _)
mapGetDeep(h, m, key, keyOrder) ==
    IF isMap(m)
    THEN IF mapHasKey(h, m, key) THEN Found(<<Leaf(mapLookup(h, m, key))>>)
         ELSE mapGetDeepKeys(h, m, key, keyOrder, iterMapKeys(h, m, keyOrder), <<>>)
    ELSE IF isSlice(m)
    THEN IF m.k # "arr" THEN DeepPanic
         ELSE mapGetDeepItems(h, m, key, keyOrder, 0, <<>>)
    ELSE Found(<<>>)

\* The loop of mapGetDeep over the keys of a map without the key.
mapGetDeepKeys(h, m, key, keyOrder, mkeys, result) ==
    IF mkeys = <<>> THEN Found(result)
    ELSE LET v == mapLookup(h, m, Head(mkeys))
         IN  IF ~isMapOrSlice(v)
             THEN mapGetDeepKeys(h, m, key, keyOrder, Tail(mkeys), result)
             ELSE LET dv == mapGetDeep(h, v, key, keyOrder)
                  IN  IF dv.panic THEN DeepPanic
                      ELSE mapGetDeepKeys(h, m, key, keyOrder, Tail(mkeys),
                               IF dv.r # <<>> THEN Append(result, Sub(dv.r)) ELSE result)

\* The loop of mapGetDeep over the items of a slice.
mapGetDeepItems(h, m, key, keyOrder, i, result) ==
    IF i >= sliceLen(m) THEN Found(result)
    ELSE LET v == mapGetDeep(h, sliceAt(h, m, i), key, keyOrder)
         IN  IF v.panic THEN DeepPanic
             ELSE mapGetDeepItems(h, m, key, keyOrder, i + 1,
                      IF v.r # <<>> THEN Append(result, Sub(v.r)) ELSE result)

\* flattenArray, on the entries mapGetDeep returns: an item that is a slice
\* (a nested result, or a found value that is itself an array) is flattened
\* recursively; asserting a []string to []any panics.
RECURSIVE flattenArray(_, _)
RECURSIVE flattenValues(_, _, _)
flattenArray(h, arr) ==
    IF arr = <<>> THEN Found(<<>>)
    ELSE LET item == Head(arr)
             first == IF ~item.leaf THEN flattenArray(h, item.sub)
                      ELSE IF ~isSlice(item.v) THEN Found(<<item.v>>)
                      ELSE IF item.v.k # "arr" THEN DeepPanic
                      ELSE flattenValues(h, item.v, 0)
             rest == flattenArray(h, Tail(arr))
         IN  IF first.panic \/ rest.panic THEN DeepPanic ELSE Found(first.r \o rest.r)

flattenValues(h, value, i) ==
    IF i >= sliceLen(value) THEN Found(<<>>)
    ELSE LET rest == flattenValues(h, value, i + 1)
             first == flattenArray(h, <<Leaf(sliceAt(h, value, i))>>)
         IN  IF first.panic \/ rest.panic THEN DeepPanic ELSE Found(first.r \o rest.r)

mapGetDeepFlattened(h, m, key, keyOrder) ==
    LET deep == mapGetDeep(h, m, key, keyOrder)
    IN  IF deep.panic THEN DeepPanic ELSE flattenArray(h, deep.r)

\* mapPutDeep: the heap after the call; it always returns nil, or panics.
\* The order of the keys does not change the writes it makes.
PutDeepOk(h) == [panic |-> FALSE, h |-> h]

PutDeepPanic(h) == [panic |-> TRUE, h |-> h]

RECURSIVE mapPutDeep(_, _, _, _)
RECURSIVE mapPutDeepKeys(_, _, _, _, _)
RECURSIVE mapPutDeepItems(_, _, _, _, _)
mapPutDeep(h, m, key, value) ==
    IF isMap(m)
    THEN IF mapHasKey(h, m, key) THEN PutDeepOk(mapStore(h, m, key, value))
         ELSE mapPutDeepKeys(h, m, key, value, iterMapKeys(h, m, DefaultKeyOrder))
    ELSE IF isSlice(m)
    THEN IF m.k # "arr" THEN PutDeepPanic(h)
         ELSE mapPutDeepItems(h, m, key, value, 0)
    ELSE PutDeepOk(h)

mapPutDeepKeys(h, m, key, value, mkeys) ==
    IF mkeys = <<>> THEN PutDeepOk(h)
    ELSE LET mvalue == mapLookup(h, m, Head(mkeys))
         IN  IF ~isMapOrSlice(mvalue) THEN mapPutDeepKeys(h, m, key, value, Tail(mkeys))
             ELSE LET r == mapPutDeep(h, mvalue, key, value)
                  IN  IF r.panic THEN r
                      ELSE mapPutDeepKeys(r.h, m, key, value, Tail(mkeys))

mapPutDeepItems(h, m, key, value, i) ==
    IF i >= sliceLen(m) THEN PutDeepOk(h)
    ELSE LET r == mapPutDeep(h, sliceAt(h, m, i), key, value)
         IN  IF r.panic THEN r ELSE mapPutDeepItems(r.h, m, key, value, i + 1)

(***************************************************************************)
(* The walker.                                                             *)
(***************************************************************************)
\* The fan-out loop of walkNodes: n.get on every item of walkedData from item
\* i on; items holds the values got so far.
\* The loop over the items of a slice keeping the last item's value only.
walkItemsLast(n, h, walkedData, i, items) ==
    IF sliceLen(walkedData) = 0
    THEN With(allocArr(h, <<>>), LAMBDA a : Ok(a.h, a.v))
    ELSE IF sliceAt(h, walkedData, sliceLen(walkedData) - 1).k # "obj" THEN Panic(h)
    ELSE With(get(n, h, sliceAt(h, walkedData, sliceLen(walkedData) - 1)),
              LAMBDA r : IF r.st # "ok" THEN r
                         ELSE With(allocArr(r.h, <<r.v>>), LAMBDA a : Ok(a.h, a.v)))

\* The loop over the items of a slice leaving out the items whose get fails.
RECURSIVE walkItemsSkipping(_, _, _, _, _)
walkItemsSkipping(n, h, walkedData, i, items) ==
    IF i >= sliceLen(walkedData)
    THEN With(allocArr(h, items), LAMBDA a : Ok(a.h, a.v))
    ELSE IF sliceAt(h, walkedData, i).k # "obj" THEN Panic(h)
    ELSE With(get(n, h, sliceAt(h, walkedData, i)),
              LAMBDA r : IF r.st = "panic" THEN r
                         ELSE IF r.st # "ok"
                         THEN walkItemsSkipping(n, r.h, walkedData, i + 1, items)
                         ELSE walkItemsSkipping(n, r.h, walkedData, i + 1, Append(items, r.v)))

RECURSIVE walkItems(_, _, _, _, _)
walkItems(n, h, walkedData, i, items) ==
    IF i >= sliceLen(walkedData)
    THEN LET a == allocArr(h, items) IN Ok(a.h, a.v)
    ELSE IF sliceAt(h, walkedData, i).k # "obj" THEN Panic(h)
    ELSE With(get(n, h, sliceAt(h, walkedData, i)),
              LAMBDA r : IF r.st # "ok" THEN r
                         ELSE walkItems(n, r.h, walkedData, i + 1, Append(items, r.v)))

\* The values mapGetDeep has found, one for each match.
RECURSIVE deepLeaves(_)
deepLeaves(entries) ==
    IF entries = <<>> THEN <<>>
    ELSE (IF Head(entries).leaf THEN <<Head(entries).v>> ELSE deepLeaves(Head(entries).sub))
         \o deepLeaves(Tail(entries))

\* n.get on each of the matches apart, the values got appended to items.
RECURSIVE getEachMatch(_, _, _, _)
getEachMatch(n, h, matches, items) ==
    IF matches = <<>> THEN With(allocArr(h, items), LAMBDA a : Ok(a.h, a.v))
    ELSE With(allocObj(h, [EmptyMap EXCEPT ![n.name] = Head(matches)]),
              LAMBDA withKey :
                 With(get(n, withKey.h, withKey.v),
                      LAMBDA r :
                         IF r.st # "ok" THEN r
                         ELSE IF ~isSlice(r.v)
                         THEN getEachMatch(n, r.h, Tail(matches), Append(items, r.v))
                         ELSE getEachMatch(n, r.h, Tail(matches),
                                           items \o sliceElems(r.h, r.v))))

\* The step under pending recursive descent applying an array segment to each
\* of the matched arrays.
walkDeepEach(n, h, walkedData, keyOrder) ==
    IF ~isArrayNode(n)
    THEN With(mapGetDeepFlattened(h, walkedData, n.name, keyOrder),
              LAMBDA flat : IF flat.panic THEN Panic(h)
                            ELSE With(allocArr(h, flat.r), LAMBDA a : Ok(a.h, a.v)))
    ELSE With(mapGetDeep(h, walkedData, n.name, keyOrder),
              LAMBDA deep : IF deep.panic THEN Panic(h)
                            ELSE getEachMatch(n, h, deepLeaves(deep.r), <<>>))

\* The step of walkNodes under pending recursive descent.
walkDeep(n, h, walkedData, keyOrder) ==
    With(mapGetDeepFlattened(h, walkedData, n.name, keyOrder),
         LAMBDA flat :
            IF flat.panic THEN Panic(h)
            ELSE With(allocArr(h, flat.r),
                      LAMBDA a :
                         IF ~isArrayNode(n) THEN Ok(a.h, a.v)
                         ELSE With(allocObj(a.h, [EmptyMap EXCEPT ![n.name] = a.v]),
                                   LAMBDA withKey : get(n, withKey.h, withKey.v))))

RECURSIVE walkLoop(_, _, _, _, _)
\* The loop of walkNodes taking "*" for the name of a key.
walkLoopNamed(h, walkedData, prevHasReccursiveDescent, nodes, keyOrder) ==
    IF nodes = <<>> THEN Ok(h, walkedData)
    ELSE IF Head(nodes).name = <<>>
    THEN walkLoop(h, walkedData, TRUE, Tail(nodes), keyOrder)
    ELSE With(IF isSlice(walkedData)
              THEN IF walkedData.k # "arr" THEN Panic(h)
                   ELSE walkItems(Head(nodes), h, walkedData, 0, <<>>)
              ELSE IF prevHasReccursiveDescent
              THEN walkDeep(Head(nodes), h, walkedData, keyOrder)
              ELSE IF walkedData.k # "obj" THEN Panic(h)
              ELSE get(Head(nodes), h, walkedData),
              LAMBDA step :
                 IF step.st # "ok" THEN step
                 ELSE walkLoop(step.h, step.v,
                               prevHasReccursiveDescent /\ isSlice(walkedData),
                               Tail(nodes), keyOrder))

\* The loop of walkNodes looking at the pending recursive descent before
\* looking for a slice.
walkLoopDeepFirst(h, walkedData, prevHasReccursiveDescent, nodes, keyOrder) ==
    IF nodes = <<>> THEN Ok(h, walkedData)
    ELSE IF Head(nodes).name = <<"*">>
    THEN walkLoop(h, walkedData, prevHasReccursiveDescent, Tail(nodes), keyOrder)
    ELSE IF Head(nodes).name = <<>>
    THEN walkLoop(h, walkedData, TRUE, Tail(nodes), keyOrder)
    ELSE With(IF prevHasReccursiveDescent
              THEN walkDeep(Head(nodes), h, walkedData, keyOrder)
              ELSE IF isSlice(walkedData)
              THEN IF walkedData.k # "arr" THEN Panic(h)
                   ELSE walkItems(Head(nodes), h, walkedData, 0, <<>>)
              ELSE IF walkedData.k # "obj" THEN Panic(h)
              ELSE get(Head(nodes), h, walkedData),
              LAMBDA step :
                 IF step.st # "ok" THEN step
                 ELSE walkLoop(step.h, step.v, FALSE, Tail(nodes), keyOrder))

walkLoop(h, walkedData, prevHasReccursiveDescent, nodes, keyOrder) ==
    IF nodes = <<>> THEN Ok(h, walkedData)
    ELSE IF Head(nodes).name = <<"*">>
    THEN walkLoop(h, walkedData, prevHasReccursiveDescent, Tail(nodes), keyOrder)
    ELSE IF Head(nodes).name = <<>>
    THEN walkLoop(h, walkedData, TRUE, Tail(nodes), keyOrder)
    ELSE With(IF isSlice(walkedData)
              THEN IF walkedData.k # "arr" THEN Panic(h)
                   ELSE walkItems(Head(nodes), h, walkedData, 0, <<>>)
              ELSE IF prevHasReccursiveDescent
              THEN walkDeep(Head(nodes), h, walkedData, keyOrder)
              ELSE IF walkedData.k # "obj" THEN Panic(h)
              ELSE get(Head(nodes), h, walkedData),
              LAMBDA step :
                 IF step.st # "ok" THEN step
                 ELSE walkLoop(step.h, step.v,
                               prevHasReccursiveDescent /\ isSlice(walkedData),
                               Tail(nodes), keyOrder))

walkNodes(h, data, nodes, keyOrder) == walkLoop(h, data, FALSE, nodes, keyOrder)

\* ensureDataStrunctureFromNodes: the heap after the call, or a panic (a write
\* to a nil map).
RECURSIVE ensureDataStrunctureFromNodes(_, _, _)
RECURSIVE ensureItems(_, _, _, _)
ensureDataStrunctureFromNodes(h, data, nodes) ==
    IF nodes = <<>> THEN PutDeepOk(h)
    ELSE IF isSlice(data) THEN ensureItems(h, data, Tail(nodes), 0)
    ELSE IF isMap(data)
    THEN LET firstNodeName == Head(nodes).name
             val == mapLookup(h, data, firstNodeName)
             made == allocObj(h, EmptyMap)
         IN  IF val = Absent \/ val = Null
             THEN IF data.n = 0 THEN PutDeepPanic(h)
                  ELSE ensureDataStrunctureFromNodes(
                           mapStore(made.h, data, firstNodeName, made.v), made.v, Tail(nodes))
             ELSE ensureDataStrunctureFromNodes(h, val, Tail(nodes))
    ELSE PutDeepOk(h)

ensureItems(h, data, nodes, i) ==
    IF i >= sliceLen(data) THEN PutDeepOk(h)
    ELSE LET r == ensureDataStrunctureFromNodes(h, sliceAt(h, data, i), nodes)
         IN  IF r.panic THEN r ELSE ensureItems(r.h, data, nodes, i + 1)

(***************************************************************************)
(* The path parser.  A JSONPath is a string; the regular expressions of    *)
(* node.go are matched by hand-written recognisers of the same languages.  *)
(***************************************************************************)
isWordChar(c) == c \in Digits \cup {"a", "b", "i", "l", "m", "n", "p", "x"} \cup {"_"}

isWord(s) == \A i \in 1..Len(s) : isWordChar(s[i])

isDigits(s) == \A i \in 1..Len(s) : s[i] \in Digits

hasPrefix(s, p) == Len(s) >= Len(p) /\ SubSeq(s, 1, Len(p)) = p

hasSuffix(s, p) == Len(s) >= Len(p) /\ SubSeq(s, Len(s) - Len(p) + 1, Len(s)) = p

\* strings.Contains(s, sub)
contains(s, sub) == \E i \in 1..(Len(s) - Len(sub) + 1) : SubSeq(s, i, i + Len(sub) - 1) = sub

\* strings.Replace(s, old, new, -1) for a non-empty old.
RECURSIVE replaceAll(_, _, _)
replaceAll(s, old, new) ==
    IF Len(s) < Len(old) THEN s
    ELSE IF hasPrefix(s, old)
    THEN new \o replaceAll(SubSeq(s, Len(old) + 1, Len(s)), old, new)
    ELSE <<Head(s)>> \o replaceAll(Tail(s), old, new)

\* strings.Split(s, sep) for a one-character sep: cur is the part being read.
RECURSIVE splitFrom(_, _, _)
splitFrom(s, sep, cur) ==
    IF s = <<>> THEN <<cur>>
    ELSE IF Head(s) = sep THEN <<cur>> \o splitFrom(Tail(s), sep, <<>>)
    ELSE splitFrom(Tail(s), sep, Append(cur, Head(s)))

split(s, sep) == splitFrom(s, sep, <<>>)

\* strings.TrimSpace, for the space character.
RECURSIVE trimLeft(_)
trimLeft(s) == IF s # <<>> /\ Head(s) = " " THEN trimLeft(Tail(s)) ELSE s

RECURSIVE trimRight(_)
trimRight(s) ==
    IF s # <<>> /\ s[Len(s)] = " " THEN trimRight(SubSeq(s, 1, Len(s) - 1)) ELSE s

\* strconv.Atoi with its error dropped: 0 when s is not an integer.
atoi(s) ==
    IF s # <<>> /\ Head(s) = "-"
    THEN IF Len(s) > 1 /\ isDigits(Tail(s)) THEN 0 - digitsValue(Tail(s), 0) ELSE 0
    ELSE IF s # <<>> /\ isDigits(s) THEN digitsValue(s, 0) ELSE 0

jsonPathHasReccursiveDescent(path) == contains(path, <<".", ".">>)

splitJsonPath(jsonPath) ==
    LET tempJsonPath == replaceAll(jsonPath, <<"@", ".">>, <<"@", ":">>)
        tokens == split(tempJsonPath, ".")
    IN  [i \in 1..Len(tokens) |-> replaceAll(tokens[i], <<"@", ":">>, <<"@", ".">>)]

\* The position of the first "[" of the token, 0 when there is none.
bracketPos(t) ==
    IF \E i \in 1..Len(t) : t[i] = "[" THEN CHOOSE i \in 1..Len(t) :
        t[i] = "[" /\ \A j \in 1..(i - 1) : t[j] # "[" ELSE 0

\* name[body]: a non-empty word, then the body between "[" and a final "]".
isBracketed(t) ==
    /\ bracketPos(t) > 1
    /\ t[Len(t)] = "]"
    /\ Len(t) > bracketPos(t)
    /\ isWord(SubSeq(t, 1, bracketPos(t) - 1))

bracketName(t) == SubSeq(t, 1, bracketPos(t) - 1)

bracketBody(t) == SubSeq(t, bracketPos(t) + 1, Len(t) - 1)

\* jsonPathArrayNodePattern: name[*]
matchesArrayNodePattern(t) == isBracketed(t) /\ bracketBody(t) = <<"*">>

\* jsonPathIndexedArrayNodePattern: the body is ( *\d+,? *)+, that is: spaces,
\* digits and commas, at least one digit, every comma right after a digit.
matchesIndexedArrayNodePattern(t) ==
    /\ isBracketed(t)
    /\ LET b == bracketBody(t)
       IN  /\ \A i \in 1..Len(b) : b[i] \in Digits \cup {" ", ","}
           /\ \E i \in 1..Len(b) : b[i] \in Digits
           /\ \A i \in 1..Len(b) : b[i] = "," => (i > 1 /\ b[i - 1] \in Digits)

\* The indices of the token, of which only the first is kept.
parsedIndicesFirst(t) ==
    LET parts == split(bracketBody(t), ",")
    IN  <<atoi(trimRight(trimLeft(parts[1])))>>

parsedIndices(t) ==
    LET parts == split(bracketBody(t), ",")
    IN  [i \in 1..Len(parts) |-> atoi(trimRight(trimLeft(parts[i])))]

\* -?\d*
isOptSignedDigits(s) ==
    IF s # <<>> /\ Head(s) = "-" THEN isDigits(Tail(s)) ELSE isDigits(s)

\* jsonPathSlicedArrayNodePattern: the body is -?\d*:-?\d*
matchesSlicedArrayNodePattern(t) ==
    /\ isBracketed(t)
    /\ LET parts == split(bracketBody(t), ":")
       IN  Len(parts) = 2 /\ isOptSignedDigits(parts[1]) /\ isOptSignedDigits(parts[2])

\* The length of the longest prefix of s made of word characters / of spaces.
RECURSIVE wordRun(_)
wordRun(s) == IF s # <<>> /\ isWordChar(Head(s)) THEN 1 + wordRun(Tail(s)) ELSE 0

RECURSIVE spaceRun(_)
spaceRun(s) == IF s # <<>> /\ Head(s) = " " THEN 1 + spaceRun(Tail(s)) ELSE 0

dropN(s, k) == SubSeq(s, k + 1, Len(s))

FilterOps == << <<"!", "=">>, <<"=", "=">>, <<"<", "=">>, <<">", "=">>, <<"<">>, <<">">> >>

\* The parts of a filter body ?(@.key op value): key, then spaces, then an
\* optional operator, spaces and a value of word characters.  Among the
\* operators only one can lead to a match, since a value holds no "=".
filterInner(t) == SubSeq(bracketBody(t), 5, Len(bracketBody(t)) - 1)

filterKey(t) == SubSeq(filterInner(t), 1, wordRun(filterInner(t)))

filterAfterKey(t) ==
    LET r == dropN(filterInner(t), wordRun(filterInner(t))) IN dropN(r, spaceRun(r))

filterOp(t) ==
    LET r == filterAfterKey(t)
        ops == SelectSeq(FilterOps, LAMBDA o : hasPrefix(r, o))
    IN  IF ops = <<>> THEN <<>> ELSE Head(ops)

filterValue(t) ==
    LET r == dropN(filterAfterKey(t), Len(filterOp(t))) IN dropN(r, spaceRun(r))

matchesFilteredArrayNodePattern(t) ==
    /\ isBracketed(t)
    /\ hasPrefix(bracketBody(t), <<"?", "(", "@", ".">>)
    /\ hasSuffix(bracketBody(t), <<")">>)
    /\ Len(bracketBody(t)) >= 6
    /\ filterKey(t) # <<>>
    /\ isWord(filterValue(t))

\* jsonPathSimpleNodePattern: a word, possibly empty, or "*".
matchesSimpleNodePattern(t) == isWord(t) \/ t = <<"*">>

\* nodeFromJsonPathSubNode: ok is FALSE where the code returns nil.
SomeNode(n) == [ok |-> TRUE, node |-> n]

nodeFromJsonPathSubNode(t) ==
    IF matchesArrayNodePattern(t) THEN SomeNode(IndexedArray(bracketName(t), <<>>))
    ELSE IF matchesIndexedArrayNodePattern(t)
    THEN SomeNode(IndexedArray(bracketName(t), parsedIndices(t)))
    ELSE IF matchesSlicedArrayNodePattern(t)
    THEN SomeNode(SlicedArray(bracketName(t),
                              atoi(split(bracketBody(t), ":")[1]),
                              atoi(split(bracketBody(t), ":")[2])))
    ELSE IF matchesFilteredArrayNodePattern(t)
    THEN SomeNode(FilteredArray(bracketName(t), filterKey(t), filterOp(t),
                                Str(filterValue(t))))
    ELSE IF matchesSimpleNodePattern(t) THEN SomeNode(Field(t))
    ELSE [ok |-> FALSE, node |-> Field(<<>>)]

\* parseJsonPath: the nodes of the path, or the error.
ParseErr(err) == [err |-> err, nodes |-> <<>>]

\* parseJsonPath going straight to the tokens of the path.
parseJsonPathUnchecked(jsonPath) ==
    LET subNodes == Tail(splitJsonPath(jsonPath))
        parsed == [i \in 1..Len(subNodes) |-> nodeFromJsonPathSubNode(subNodes[i])]
    IN  IF \E i \in 1..Len(parsed) : ~parsed[i].ok THEN ParseErr("PathToken")
        ELSE [err |-> "", nodes |-> [i \in 1..Len(parsed) |-> parsed[i].node]]

parseJsonPath(jsonPath) ==
    IF ~hasPrefix(jsonPath, <<"$", ".">>) THEN ParseErr("PathStart")
    ELSE IF hasSuffix(jsonPath, <<".">>) THEN ParseErr("PathEnd")
    ELSE LET subNodes == Tail(splitJsonPath(jsonPath))
             parsed == [i \in 1..Len(subNodes) |-> nodeFromJsonPathSubNode(subNodes[i])]
         IN  IF \E i \in 1..Len(parsed) : ~parsed[i].ok THEN ParseErr("PathToken")
             ELSE [err |-> "", nodes |-> [i \in 1..Len(parsed) |-> parsed[i].node]]

(***************************************************************************)
(* Get and Put.                                                            *)
(***************************************************************************)
\* Get preparing the data the way Put does.
GetEnsuring(h, data, jsonPath, keyOrder) ==
    With(parseJsonPath(jsonPath),
         LAMBDA parsed :
            IF parsed.err # "" THEN Err(h, parsed.err)
            ELSE With(IF ~jsonPathHasReccursiveDescent(jsonPath) /\ data.n # 0
                      THEN ensureDataStrunctureFromNodes(h, data, parsed.nodes)
                      ELSE PutDeepOk(h),
                      LAMBDA ensured :
                         IF ensured.panic THEN Panic(ensured.h)
                         ELSE walkNodes(ensured.h, data, parsed.nodes, keyOrder)))

Get(h, data, jsonPath, keyOrder) ==
    With(parseJsonPath(jsonPath),
         LAMBDA parsed : IF parsed.err # "" THEN Err(h, parsed.err)
                         ELSE walkNodes(h, data, parsed.nodes, keyOrder))

\* The loop of Put over the items of the walked data: lastNode.put on each.
RECURSIVE putItems(_, _, _, _, _)
putItems(lastNode, h, walkedData, i, value) ==
    IF i >= sliceLen(walkedData) THEN Ok(h, Null)
    ELSE LET item == sliceAt(h, walkedData, i)
         IN  IF item.k # "obj" THEN Panic(h)
             ELSE LET r == put(lastNode, h, item, value)
                  IN  IF r.st # "ok" THEN r
                      ELSE putItems(lastNode, r.h, walkedData, i + 1, value)

\* The end of Put: lastNode.put on the walked data, or on each of its items.
putLast(h, walkedData, lastNode, value) ==
    IF isSlice(walkedData)
    THEN IF walkedData.k # "arr" THEN Panic(h)
         ELSE putItems(lastNode, h, walkedData, 0, value)
    ELSE IF walkedData.k # "obj" THEN Panic(h)
    ELSE put(lastNode, h, walkedData, value)

\* Put taking the root for the parent of the last segment whatever the walk
\* returned, as it does after a KeyNotFound.
putWalkedAtRoot(data, lastNode, value, walked) ==
    IF walked.st = "panic" THEN walked
    ELSE IF walked.st = "err" /\ walked.et # "KeyNotFound" THEN walked
    ELSE putLast(walked.h, data, lastNode, value)

\* Put returning every error of the walk, KeyNotFound included.
putWalkedOrFail(data, lastNode, value, walked) ==
    IF walked.st # "ok" THEN walked
    ELSE putLast(walked.h, walked.v, lastNode, value)

\* Put from the result of the walk of all but the last node on.
putWalked(data, lastNode, value, walked) ==
    IF walked.st = "panic" THEN walked
    ELSE IF walked.st = "err" /\ walked.et # "KeyNotFound" THEN walked
    ELSE putLast(walked.h, IF walked.st = "ok" THEN walked.v ELSE data, lastNode, value)

\* Put returning what mapPutDeep returned.
putDeep(deep) == IF deep.panic THEN Panic(deep.h) ELSE Ok(deep.h, Null)

\* Put replacing the key beneath what the segments before ".." lead to.
putEnsuredBeneath(data, nodes, value, keyOrder, ensured) ==
    IF ensured.panic THEN Panic(ensured.h)
    ELSE IF /\ Len(nodes) >= 2
            /\ nodes[Len(nodes) - 1].name = <<>>
            /\ ~isArrayNode(nodes[Len(nodes)])
    THEN With(walkNodes(ensured.h, data, SubSeq(nodes, 1, Len(nodes) - 2), keyOrder),
              LAMBDA walked :
                 IF walked.st # "ok" THEN walked
                 ELSE putDeep(mapPutDeep(walked.h, walked.v, nodes[Len(nodes)].name, value)))
    ELSE putWalked(data, nodes[Len(nodes)], value,
                   walkNodes(ensured.h, data, SubSeq(nodes, 1, Len(nodes) - 1), keyOrder))

\* Put from the pre-pass on: ensured is the heap the pre-pass left.
putEnsured(data, nodes, value, keyOrder, ensured) ==
    IF ensured.panic THEN Panic(ensured.h)
    ELSE IF /\ Len(nodes) >= 2
            /\ nodes[Len(nodes) - 1].name = <<>>
            /\ ~isArrayNode(nodes[Len(nodes)])
    THEN putDeep(mapPutDeep(ensured.h, data, nodes[Len(nodes)].name, value))
    ELSE putWalked(data, nodes[Len(nodes)], value,
                   walkNodes(ensured.h, data, SubSeq(nodes, 1, Len(nodes) - 1), keyOrder))

\* Put from the parsed path on.
putParsed(h, data, jsonPath, value, keyOrder, parsed) ==
    IF parsed.err # "" THEN Err(h, parsed.err)
    ELSE putEnsured(data, parsed.nodes, value, keyOrder,
                    IF ~jsonPathHasReccursiveDescent(jsonPath) /\ data.n # 0
                    THEN ensureDataStrunctureFromNodes(h, data, parsed.nodes)
                    ELSE PutDeepOk(h))

Put(h, data, jsonPath, value, keyOrder) ==
    putParsed(h, data, jsonPath, value, keyOrder, parseJsonPath(jsonPath))

(***************************************************************************)
(* Trees: the contents of a value, without the addresses.  Two values have *)
(* the same tree exactly when they hold the same data.                     *)
(***************************************************************************)
RECURSIVE Tree(_, _)
Tree(h, v) ==
    IF v.k = "obj"
    THEN [k |-> "obj", n |-> 0, s |-> <<>>,
          m |-> [key \in {x \in AllKeys : mapHasKey(h, v, x)} |-> Tree(h, mapLookup(h, v, key))],
          e |-> <<>>]
    ELSE IF isSlice(v)
    THEN [k |-> v.k, n |-> 0, s |-> <<>>, m |-> <<>>,
          e |-> [i \in 1..sliceLen(v) |-> Tree(h, sliceAt(h, v, i - 1))]]
    ELSE [k |-> v.k, n |-> v.n, s |-> v.s, m |-> <<>>, e |-> <<>>]

\* Tree literals, and Build, which lays a tree out in the heap (as the
\* caller's decoder or composite literals do), every node in a cell of its own.
TNull == [k |-> "null", n |-> 0, s |-> <<>>, m |-> <<>>, e |-> <<>>]

TNum(i) == [k |-> "num", n |-> i, s |-> <<>>, m |-> <<>>, e |-> <<>>]

TStr(s) == [k |-> "str", n |-> 0, s |-> s, m |-> <<>>, e |-> <<>>]

TObj(m) == [k |-> "obj", n |-> 0, s |-> <<>>, m |-> m, e |-> <<>>]

TArr(e) == [k |-> "arr", n |-> 0, s |-> <<>>, m |-> <<>>, e |-> e]

TStrs(e) == [k |-> "strs", n |-> 0, s |-> <<>>, m |-> <<>>, e |-> e]

RECURSIVE Build(_, _)
RECURSIVE BuildKeys(_, _, _, _)
RECURSIVE BuildItems(_, _, _, _)
Build(h, t) ==
    IF t.k = "obj"
    THEN LET made == allocObj(h, EmptyMap)
         IN  [h |-> BuildKeys(made.h, made.v, t.m,
                              SelectSeq(DefaultKeyOrder, LAMBDA key : key \in DOMAIN t.m)),
              v |-> made.v]
    ELSE IF t.k \in {"arr", "strs"}
    THEN LET made == allocArr(h, [i \in 1..Len(t.e) |-> Null])
         IN  [h |-> BuildItems(made.h, made.v, t.e, 0),
              v |-> IF t.k = "arr" THEN made.v
                    ELSE StrsRef(made.v.n, made.v.lo, made.v.hi)]
    ELSE [h |-> h, v |-> mkVal(t.k, t.n, t.s, 0, 0)]

BuildKeys(h, obj, m, keys) ==
    IF keys = <<>> THEN h
    ELSE LET b == Build(h, m[Head(keys)])
         IN  BuildKeys(mapStore(b.h, obj, Head(keys), b.v), obj, m, Tail(keys))

BuildItems(h, arr, e, i) ==
    IF i >= Len(e) THEN h
    ELSE LET b == Build(h, e[i + 1])
         IN  BuildItems(sliceStore(b.h, arr, i, b.v), arr, e, i + 1)

(***************************************************************************)
(* Transformers.                                                           *)
(***************************************************************************)
\* strings.Split(s, sep): for an empty sep, the characters of s.
RECURSIVE splitSep(_, _, _)
splitSep(s, sep, cur) ==
    IF s = <<>> THEN <<cur>>
    ELSE IF hasPrefix(s, sep) THEN <<cur>> \o splitSep(dropN(s, Len(sep)), sep, <<>>)
    ELSE splitSep(Tail(s), sep, Append(cur, Head(s)))

stringsSplit(s, sep) ==
    IF sep = <<>> THEN [i \in 1..Len(s) |-> <<s[i]>>] ELSE splitSep(s, sep, <<>>)

\* strings.Join(elems, sep)
RECURSIVE stringsJoin(_, _)
stringsJoin(elems, sep) ==
    IF elems = <<>> THEN <<>>
    ELSE IF Len(elems) = 1 THEN elems[1]
    ELSE elems[1] \o sep \o stringsJoin(Tail(elems), sep)

\* The decimal digits of a natural number, and of an integer.
RECURSIVE natDigits(_)
natDigits(i) ==
    IF i < 10 THEN <<Chars[CharOrd("0") + i]>>
    ELSE Append(natDigits(i \div 10), Chars[CharOrd("0") + (i % 10)])

\* The keys of the model in increasing order, as fmt prints the keys of a map.
SortedKeys == CHOOSE o \in KeyOrders : \A i, j \in DOMAIN o : i < j => strLess(o[i], o[j])

\* fmt.Sprintf("%v", value)
RECURSIVE sprintv(_, _)
sprintv(h, value) ==
    IF value.k = "str" THEN value.s
    ELSE IF value.k = "num"
    THEN IF value.n < 0 THEN <<"-">> \o natDigits(0 - value.n) ELSE natDigits(value.n)
    ELSE IF value.k = "null" THEN <<"<", "n", "i", "l", ">">>
    ELSE IF value.k = "obj"
    THEN LET keys == iterMapKeys(h, value, SortedKeys)
         IN  <<"m", "a", "p", "[">>
             \o stringsJoin([i \in 1..Len(keys) |->
                    keys[i] \o <<":">> \o sprintv(h, mapLookup(h, value, keys[i]))], <<" ">>)
             \o <<"]">>
    ELSE <<"[">>
         \o stringsJoin([i \in 1..sliceLen(value) |-> sprintv(h, sliceAt(h, value, i - 1))],
                        <<" ">>)
         \o <<"]">>

SplitTransformer(delim, index) ==
    [kind |-> "Split", delim |-> delim, index |-> index, old |-> <<>>, new |-> <<>>,
     start |-> 0, end |-> 0]

JoinTransformer(delim) ==
    [kind |-> "Join", delim |-> delim, index |-> 0, old |-> <<>>, new |-> <<>>,
     start |-> 0, end |-> 0]

ReplaceTransformer(old, new) ==
    [kind |-> "Replace", delim |-> <<>>, index |-> 0, old |-> old, new |-> new,
     start |-> 0, end |-> 0]

SubStrTransformer(start, end) ==
    [kind |-> "SubStr", delim |-> <<>>, index |-> 0, old |-> <<>>, new |-> <<>>,
     start |-> start, end |-> end]

NumberTransformer ==
    [kind |-> "Number", delim |-> <<>>, index |-> 0, old |-> <<>>, new |-> <<>>,
     start |-> 0, end |-> 0]

Transformation(trsnfmr, asArray) == [Trsnfmr |-> trsnfmr, AsArray |-> asArray]

SplitTransform(t, h, value) ==
    LET parts == stringsSplit(value.s, t.delim)
        made == allocArr(h, [i \in 1..Len(parts) |-> Str(parts[i])])
    IN  IF ~isString(value) THEN Err(h, "NotString")
        ELSE IF t.index >= Len(parts) THEN Err(h, "IndexOutOfBounds")
        ELSE IF t.index = -1 THEN Ok(made.h, StrsRef(made.v.n, made.v.lo, made.v.hi))
        ELSE IF t.index < 0 THEN Panic(h)
        ELSE Ok(h, Str(parts[t.index + 1]))

JoinTransform(t, h, value) ==
    IF ~isSlice(value) THEN Err(h, "NotArray")
    ELSE Ok(h, Str(stringsJoin([i \in 1..sliceLen(value) |->
                                    sprintv(h, sliceAt(h, value, i - 1))], t.delim)))

\* The model applies Replace with a non-empty OldVal only.
ReplaceTransform(t, h, value) ==
    IF ~isString(value) THEN Err(h, "NotString")
    ELSE Ok(h, Str(replaceAll(value.s, t.old, t.new)))

SubStrTransform(t, h, value) ==
    LET end == IF t.end = 0 THEN Len(value.s) ELSE t.end
    IN  IF ~isString(value) THEN Err(h, "NotString")
        ELSE IF t.start < 0 THEN Err(h, "StartOutOfBound")
        ELSE IF t.end >= Len(value.s) THEN Err(h, "EndOutOfBound")
        ELSE IF t.start > end THEN Panic(h)
        ELSE Ok(h, Str(SubSeq(value.s, t.start + 1, end)))

NumberTransform(t, h, value) ==
    IF ~isString(value) THEN Err(h, "NotString")
    ELSE IF ~parseFloatOk(value.s) THEN Err(h, "NotNumber")
    ELSE Ok(h, Num(parseFloat(value.s)))

\* transformer.Transform(value): dispatch on the dynamic type of the transformer.
Transform(t, h, value) ==
    CASE t.kind = "Split" -> SplitTransform(t, h, value)
      [] t.kind = "Join" -> JoinTransform(t, h, value)
      [] t.kind = "Replace" -> ReplaceTransform(t, h, value)
      [] t.kind = "SubStr" -> SubStrTransform(t, h, value)
      [] t.kind = "Number" -> NumberTransform(t, h, value)

(***************************************************************************)
(* Map.                                                                    *)
(***************************************************************************)
Mapper(srcJsonPath, dstJsonPath, transformations) ==
    [SrcJsonPath |-> srcJsonPath, DstJsonPath |-> dstJsonPath,
     Transformations |-> transformations]

\* The outcome of a transformation step: elem is the index of the array
\* element whose transformation failed, -1 when the failure is not an element's.
StepOk(h, v) == [st |-> "ok", et |-> "", elem |-> -1, v |-> v, h |-> h]

StepErr(h, v, et, elem) == [st |-> "err", et |-> et, elem |-> elem, v |-> v, h |-> h]

StepPanic(h) == [st |-> "panic", et |-> "", elem |-> -1, v |-> Null, h |-> h]

\* The loop of handleSlideTransformation from element i on.
RECURSIVE slideItems(_, _, _, _, _)
slideItems(h, value, transformer, i, transArray) ==
    IF i >= sliceLen(value)
    THEN With(allocArr(h, transArray), LAMBDA made : StepOk(made.h, made.v))
    ELSE With(Transform(transformer, h, sliceAt(h, value, i)),
              LAMBDA r :
                 IF r.st = "panic" THEN StepPanic(r.h)
                 ELSE IF r.st = "err" THEN StepErr(r.h, value, r.et, i)
                 ELSE slideItems(r.h, value, transformer, i + 1, Append(transArray, r.v)))

handleSlideTransformation(h, value, transformer) == slideItems(h, value, transformer, 0, <<>>)

\* The round of the loop without the test of AsArray: an Array is always
\* transformed element by element.
applyTransformationEach(h, srcValue, transformation) ==
    IF isSlice(srcValue)
    THEN handleSlideTransformation(h, srcValue, transformation.Trsnfmr)
    ELSE With(Transform(transformation.Trsnfmr, h, srcValue),
              LAMBDA whole :
                 IF whole.st = "panic" THEN StepPanic(whole.h)
                 ELSE IF whole.st = "err" THEN StepErr(whole.h, whole.v, whole.et, -1)
                 ELSE StepOk(whole.h, whole.v))

\* One round of the transformation loop of handleMapper.
applyTransformation(h, srcValue, transformation) ==
    IF isSlice(srcValue) /\ ~transformation.AsArray
    THEN handleSlideTransformation(h, srcValue, transformation.Trsnfmr)
    ELSE With(Transform(transformation.Trsnfmr, h, srcValue),
              LAMBDA whole :
                 IF whole.st = "panic" THEN StepPanic(whole.h)
                 ELSE IF whole.st = "err" THEN StepErr(whole.h, whole.v, whole.et, -1)
                 ELSE StepOk(whole.h, whole.v))

\* What handleMapper did: the stage it failed at ("" when it returned nil),
\* the index of the failing transformation and element, whether Get and Put
\* were called, and a record of every transformation step it ran.
Handled(st, stage, et, index, elem, h, got, putCalled, steps, value) ==
    [st |-> st, stage |-> stage, et |-> et, index |-> index, elem |-> elem, h |-> h,
     got |-> got, putCalled |-> putCalled, steps |-> steps, value |-> value]

StepLog(h0, srcValue, transformation, r) ==
    [input |-> Tree(h0, srcValue), Trsnfmr |-> transformation.Trsnfmr,
     AsArray |-> transformation.AsArray, st |-> r.st, elem |-> r.elem,
     output |-> IF r.st = "ok" THEN Tree(r.h, r.v) ELSE TNull]

\* The loop of handleMapper looking at the error after the loop only: a
\* failure that is not the last transformation's is lost.
RECURSIVE transformAndPutLate(_, _, _, _, _, _, _)
transformAndPutLate(h, dst, mapper, srcValue, i, steps, keyOrder) ==
    IF i >= Len(mapper.Transformations)
    THEN With(Put(h, dst, mapper.DstJsonPath, srcValue, keyOrder),
              LAMBDA r : Handled(r.st, IF r.st = "ok" THEN "" ELSE "Put", r.et, -1, -1,
                                 r.h, TRUE, TRUE, steps, srcValue))
    ELSE With(applyTransformation(h, srcValue, mapper.Transformations[i + 1]),
              LAMBDA r :
                 IF r.st = "panic" \/ (r.st = "err" /\ i + 1 = Len(mapper.Transformations))
                 THEN Handled(r.st, "Transformation", r.et, i, r.elem, r.h, TRUE, FALSE,
                              Append(steps, StepLog(h, srcValue,
                                                    mapper.Transformations[i + 1], r)),
                              Null)
                 ELSE transformAndPutLate(r.h, dst, mapper, r.v, i + 1,
                                          Append(steps, StepLog(h, srcValue,
                                                                mapper.Transformations[i + 1], r)),
                                          keyOrder))

\* The transformation loop of handleMapper from transformation i (0-based) on,
\* followed by the Put.
RECURSIVE transformAndPut(_, _, _, _, _, _, _)
transformAndPut(h, dst, mapper, srcValue, i, steps, keyOrder) ==
    IF i >= Len(mapper.Transformations)
    THEN With(Put(h, dst, mapper.DstJsonPath, srcValue, keyOrder),
              LAMBDA r : Handled(r.st, IF r.st = "ok" THEN "" ELSE "Put", r.et, -1, -1,
                                 r.h, TRUE, TRUE, steps, srcValue))
    ELSE With(applyTransformation(h, srcValue, mapper.Transformations[i + 1]),
              LAMBDA r :
                 IF r.st # "ok"
                 THEN Handled(r.st, "Transformation", r.et, i, r.elem, r.h, TRUE, FALSE,
                              Append(steps, StepLog(h, srcValue,
                                                    mapper.Transformations[i + 1], r)),
                              Null)
                 ELSE transformAndPut(r.h, dst, mapper, r.v, i + 1,
                                      Append(steps, StepLog(h, srcValue,
                                                            mapper.Transformations[i + 1], r)),
                                      keyOrder))

\* validateMapper looking at the source path.
validateMapperSource(mapper) ==
    IF jsonPathHasReccursiveDescent(mapper.SrcJsonPath) THEN "ReccursiveDescent" ELSE ""

validateMapper(mapper) ==
    IF jsonPathHasReccursiveDescent(mapper.DstJsonPath) THEN "ReccursiveDescent" ELSE ""

handleMapper(h, src, dst, mapper, keyOrder) ==
    IF validateMapper(mapper) # ""
    THEN Handled("err", "Validation", validateMapper(mapper), -1, -1, h,
                 FALSE, FALSE, <<>>, Null)
    ELSE With(Get(h, src, mapper.SrcJsonPath, keyOrder),
              LAMBDA got :
                 IF got.st # "ok"
                 THEN Handled(got.st, "Get", got.et, -1, -1, got.h, TRUE, FALSE, <<>>, Null)
                 ELSE transformAndPut(got.h, dst, mapper, got.v, 0, <<>>, keyOrder))

(***************************************************************************)
(* The inputs of the model: documents, paths, values and mappers.          *)
(***************************************************************************)
MaxPathLen == 3

MaxMappers == 2

A == <<"a">>

B == <<"b">>

O0 == TObj([key \in {} |-> TNull])

O1(key1, t1) == TObj([key \in {key1} |-> t1])

O2(ta, tb) == TObj([key \in {A, B} |-> IF key = A THEN ta ELSE tb])

\* The documents Get and Put are called on.
Docs ==
    << O0,
       O1(A, TNum(1)),
       O1(A, TNull),
       O1(A, O0),
       O1(A, O1(B, TNum(1))),
       O1(A, O1(B, TNull)),
       O2(TNum(1), O1(A, TNum(2))),
       O2(O1(A, TNum(1)), O1(B, O1(A, TNum(2)))),
       O1(B, O2(TNum(1), O2(TNum(2), TArr(<<TNum(3)>>)))),
       O1(A, TArr(<<>>)),
       O1(A, TArr(<<O0>>)),
       O1(A, TArr(<<O1(B, TNum(1)), O1(B, TNum(2))>>)),
       O1(A, TArr(<<O1(B, TNum(1)), O0>>)),
       O1(A, TArr(<<O1(B, O1(A, TNum(1))), O1(B, O0)>>)),
       O1(A, TArr(<<O1(A, TNum(1)), O1(B, O1(A, TNum(2)))>>)),
       O1(A, TArr(<<O2(TNum(1), TStr(<<"1">>)), O1(B, TStr(<<"x">>)), O1(B, TNum(2))>>)),
       O1(A, TArr(<<TNum(1), TNum(2), TNum(3)>>)),
       O1(A, TArr(<<TArr(<<O1(B, TNum(1))>>), TArr(<<TNum(2)>>)>>)),
       O2(TArr(<<O1(A, TArr(<<TNum(1), TNum(2)>>))>>), O1(A, TArr(<<TNum(3)>>))),
       O2(TStrs(<<TStr(<<"x">>)>>), TStr(<<"1", "2">>)),
       O1(B, O1(B, O1(A, TNum(1)))),
       O1(B, TArr(<<O1(A, TArr(<<TNum(1), TNum(2)>>)), O1(A, TArr(<<TNum(3)>>))>>)),
       O1(B, TStrs(<<TStr(<<"x">>)>>)) >>

PathOf(tokens) ==
    <<"$">> \o stringsJoin([i \in 1..Len(tokens) |-> <<".">> \o tokens[i]], <<>>)

\* The tokens a path is made of: fields, the wildcard and the empty token of
\* "..", and array tokens.
SimpleTokens == {A, B, <<"*">>, <<>>}

ArrayTokens ==
    { <<"a", "[", "*", "]">>,
      <<"a", "[", "0", "]">>,
      <<"a", "[", "1", ",", "0", ",", "5", "]">>,
      <<"a", "[", "1", ":", "]">>,
      <<"a", "[", ":", "1", "]">>,
      <<"a", "[", ":", "]">>,
      <<"a", "[", "?", "(", "@", ".", "b", ")", "]">>,
      <<"a", "[", "?", "(", "@", ".", "b", " ", "<", "=", " ", "1", ")", "]">> }

SimplePaths ==
    {PathOf(ts) : ts \in UNION {[1..n -> SimpleTokens] : n \in 1..MaxPathLen}}

ArrayPaths ==
    {PathOf(pre \o <<t>> \o post) :
        pre \in {<<>>, <<A>>, << <<>> >>},
        t \in ArrayTokens,
        post \in {<<>>, <<A>>, <<B>>}}

MalformedPaths ==
    { <<>>, <<"$">>, <<"a">>, <<"a", ".">>, <<"$", "a">>, <<"$", ".", "a", "[">>,
      <<"$", ".", "a", "[", "-", "1", "]">> }

Paths == SimplePaths \cup ArrayPaths \cup MalformedPaths

\* The sources and destinations Map is called on, and its mappers.
SrcDocs ==
    << O2(TStr(<<"1", ",", "2">>),
          TArr(<<O1(A, TStr(<<"3", ",", "4">>)), O1(A, TStr(<<"x">>))>>)),
       O1(B, TArr(<<O1(A, TStr(<<"5">>))>>)) >>

DstDocs == << O0, O1(A, TNull), O1(A, O1(B, TNum(1))) >>

Comma == <<",">>

Mappers ==
    { Mapper(PathOf(<<A>>), PathOf(<<A>>), <<>>),
      Mapper(PathOf(<<A>>), PathOf(<<B>>),
             <<Transformation(SplitTransformer(Comma, 0), FALSE)>>),
      Mapper(PathOf(<<A>>), PathOf(<<A, B>>),
             <<Transformation(SplitTransformer(Comma, -1), FALSE),
               Transformation(NumberTransformer, FALSE)>>),
      Mapper(PathOf(<<B, A>>), PathOf(<<A>>),
             <<Transformation(SplitTransformer(Comma, 1), FALSE)>>),
      Mapper(PathOf(<<B, A>>), PathOf(<<B>>),
             <<Transformation(JoinTransformer(<<>>), TRUE)>>),
      Mapper(PathOf(<<B, A>>), PathOf(<<A>>),
             <<Transformation(SplitTransformer(Comma, 0), FALSE),
               Transformation(NumberTransformer, FALSE),
               Transformation(JoinTransformer(Comma), TRUE)>>),
      Mapper(PathOf(<<B>>), PathOf(<<A>>), <<>>),
      Mapper(PathOf(<<A>>), PathOf(<< <<>>, A>>), <<>>),
      Mapper(PathOf(<<A>>), PathOf(<< <<"a", "[", "0", "]">> >>), <<>>),
      Mapper(PathOf(<<B, A>>), PathOf(<<B>>),
             <<Transformation(JoinTransformer(Comma), TRUE),
               Transformation(SplitTransformer(Comma, -1), TRUE),
               Transformation(SubStrTransformer(0, 0), FALSE)>>),
      Mapper(PathOf(<<A>>), PathOf(<<B, A>>),
             <<Transformation(ReplaceTransformer(Comma, <<>>), FALSE),
               Transformation(NumberTransformer, TRUE)>>),
      Mapper(PathOf(<<B, A>>), PathOf(<<B>>),
             <<Transformation(NumberTransformer, TRUE)>>) }

MapperLists == UNION {[1..n -> Mappers] : n \in 0..MaxMappers}

(***************************************************************************)
(* The state machine.  A behaviour is one call of Get or Put on dst,       *)
(* possibly followed by a second call with the same path, or one call of   *)
(* Map, one mapper per step, or one call of a part on its own, or one      *)
(* call of mapHasKey, one step of a goroutine at a time.                   *)
(***************************************************************************)
VARIABLES
    heap,       \* the cells of all the trees
    src,        \* the source of Map
    dst,        \* the data of Get and Put, and the destination of Map
    vals,       \* the values a caller passes to Put
    phase,      \* "idle", "returned", "done", "mapping", "mapped", "panicked"
    call,       \* the last call: its operation, path and value
    ret,        \* what the last call returned
    pre,        \* the heap before the first call, or before the last mapper
    mappers,    \* the mappers of the running Map
    errors,     \* the errors Map has collected
    log,        \* what handleMapper did, for every mapper handled
    iter        \* the goroutine of an iterator and the loop that ranges over it

vars == <<heap, src, dst, vals, phase, call, ret, pre, mappers, errors, log, iter>>

\* No iterator has been started.
NoIter == [producer |-> "", consumer |-> "", keys |-> <<>>, out |-> "", quit |-> "",
           mkey |-> <<>>]

NoCall == [op |-> "", path |-> <<>>, value |-> Null, first |-> "", firstEt |-> ""]

NoRet == [st |-> "", et |-> "", v |-> Null]

\* The values Put is called with: scalars, and an array and an object of the
\* caller that sit in the heap next to the data.
CallerValues(arr, obj) == <<Num(9), Null, arr, obj>>

InitData(h, root) ==
    LET arr == Build(h, TArr(<<TNum(7)>>))
        obj == Build(arr.h, O1(B, TNum(7)))
    IN  /\ heap = obj.h
        /\ dst = root
        /\ vals = CallerValues(arr.v, obj.v)

Init ==
    /\ \/ \E d \in DOMAIN Docs : InitData(Build(<<>>, Docs[d]).h, Build(<<>>, Docs[d]).v)
       \/ InitData(<<>>, NilMap)
    /\ src = NilMap
    /\ phase = "idle"
    /\ call = NoCall
    /\ ret = NoRet
    /\ pre = heap
    /\ mappers = <<>>
    /\ errors = <<>>
    /\ log = <<>>
    /\ iter = NoIter

\* The orders in which a call may see the keys of a map: they matter to a
\* path with recursive descent only.
OrdersFor(jsonPath) ==
    IF jsonPathHasReccursiveDescent(jsonPath) THEN KeyOrders ELSE {DefaultKeyOrder}

QueryDone(op, jsonPath, value, r, next) ==
    /\ heap' = r.h
    /\ pre' = IF phase = "idle" THEN heap ELSE pre
    /\ call' = [op |-> op, path |-> jsonPath, value |-> value,
                first |-> ret.st, firstEt |-> ret.et]
    /\ ret' = [st |-> r.st, et |-> r.et, v |-> r.v]
    /\ phase' = IF r.st = "panic" THEN "panicked" ELSE next
    /\ UNCHANGED <<src, dst, vals, mappers, errors, log, iter>>

DoGet ==
    /\ phase = "idle"
    /\ \E jsonPath \in Paths : \E keyOrder \in OrdersFor(jsonPath) :
          QueryDone("Get", jsonPath, Null, Get(heap, dst, jsonPath, keyOrder), "returned")

DoPut ==
    /\ phase = "idle"
    /\ \E jsonPath \in Paths : \E i \in DOMAIN vals : \E keyOrder \in OrdersFor(jsonPath) :
          QueryDone("Put", jsonPath, vals[i],
                    Put(heap, dst, jsonPath, vals[i], keyOrder), "returned")

\* Get with the path of the Put that has just returned.
GetAfterPut ==
    /\ phase = "returned"
    /\ call.op = "Put"
    /\ \E keyOrder \in OrdersFor(call.path) :
          QueryDone("GetAfterPut", call.path, call.value,
                    Get(heap, dst, call.path, keyOrder), "done")

\* Whether the cell at address a can be reached from the value v.
RECURSIVE Reaches(_, _, _)
Reaches(h, v, a) ==
    IF v.n = 0 \/ ~isMapOrSlice(v) THEN FALSE
    ELSE IF v.n = a THEN TRUE
    ELSE IF isMap(v) THEN \E key \in AllKeys : Reaches(h, mapLookup(h, v, key), a)
    ELSE \E i \in 1..Len(h[v.n].e) : Reaches(h, h[v.n].e[i], a)

\* Put of the value that the Get that has just returned got, with its path.
\* The model leaves out the calls that would make the data contain itself.
PutBack ==
    /\ phase = "returned"
    /\ call.op = "Get"
    /\ ret.st = "ok"
    /\ ~Reaches(heap, ret.v, dst.n)
    /\ \E keyOrder \in OrdersFor(call.path) :
          /\ QueryDone("PutBack", call.path, ret.v,
                       Put(heap, dst, call.path, ret.v, keyOrder), "done")

Next == DoGet \/ DoPut \/ GetAfterPut \/ PutBack

Spec == Init /\ [][Next]_vars

(***************************************************************************)
(* Map: the mappers are handled one per step, in order.                    *)
(***************************************************************************)
InitMap ==
    /\ \E s \in DOMAIN SrcDocs : \E d \in DOMAIN DstDocs :
          LET source == Build(<<>>, SrcDocs[s])
              dest == Build(source.h, DstDocs[d])
          IN  /\ heap = dest.h
              /\ src = source.v
              /\ dst = dest.v
    /\ vals = <<>>
    /\ phase = "idle"
    /\ call = NoCall
    /\ ret = NoRet
    /\ pre = heap
    /\ mappers = <<>>
    /\ errors = <<>>
    /\ log = <<>>
    /\ iter = NoIter

\* The call of Map: with no mappers it returns at once.
StartMap ==
    /\ phase = "idle"
    /\ \E ms \in MapperLists :
          /\ mappers' = ms
          /\ phase' = IF Len(ms) = 0 THEN "mapped" ELSE "mapping"
    /\ call' = [NoCall EXCEPT !.op = "Map"]
    /\ UNCHANGED <<heap, src, dst, vals, ret, pre, errors, log, iter>>

\* The error Map appends for the mapper of index i.
MapperError(i, r) ==
    [Mapper |-> i, stage |-> r.stage, et |-> r.et, Transformation |-> r.index,
     Array |-> r.elem]

\* What the model remembers of the handling of the mapper of index i.
Logged(h, i, r) ==
    [Mapper |-> i, st |-> r.st, stage |-> r.stage, got |-> r.got,
     putCalled |-> r.putCalled, steps |-> r.steps,
     value |-> IF r.putCalled THEN Tree(r.h, r.value) ELSE TNull,
     dstBefore |-> Tree(h, dst),
     dstAfter |-> Tree(r.h, dst)]

\* One round of a loop of Map that takes the mappers from the last one to the
\* first.
MapStepBackwards ==
    /\ phase = "mapping"
    /\ \E keyOrder \in OrdersFor(mappers[Len(mappers) - Len(log)].SrcJsonPath) :
          With(handleMapper(heap, src, dst, mappers[Len(mappers) - Len(log)], keyOrder),
               LAMBDA r :
                  /\ heap' = r.h
                  /\ pre' = heap
                  /\ log' = Append(log, Logged(heap, Len(mappers) - Len(log) - 1, r))
                  /\ errors' = IF r.st = "err"
                               THEN Append(errors, MapperError(Len(mappers) - Len(log) - 1, r))
                               ELSE errors
                  /\ phase' = IF r.st = "panic" THEN "panicked"
                              ELSE IF Len(log) + 1 = Len(mappers) THEN "mapped"
                              ELSE "mapping")
    /\ UNCHANGED <<src, dst, vals, call, ret, mappers, iter>>

\* One round of the loop of Map, and its return after the last mapper.
MapStep ==
    /\ phase = "mapping"
    /\ \E keyOrder \in OrdersFor(mappers[Len(log) + 1].SrcJsonPath) :
          With(handleMapper(heap, src, dst, mappers[Len(log) + 1], keyOrder),
               LAMBDA r :
                  /\ heap' = r.h
                  /\ pre' = heap
                  /\ log' = Append(log, Logged(heap, Len(log), r))
                  /\ errors' = IF r.st = "err"
                               THEN Append(errors, MapperError(Len(log), r))
                               ELSE errors
                  /\ phase' = IF r.st = "panic" THEN "panicked"
                              ELSE IF Len(log) + 1 = Len(mappers) THEN "mapped"
                              ELSE "mapping")
    /\ UNCHANGED <<src, dst, vals, call, ret, mappers, iter>>

NextMap == StartMap \/ MapStep

SpecMap == InitMap /\ [][NextMap]_vars

(***************************************************************************)
(* The parts on their own: one call of assertCondition, of a node's get or *)
(* put, of the node parser or of a transformer, on the data of Init.       *)
(***************************************************************************)
\* The values a filter compares: what an item holds under the key, and the
\* literal of the filter.
ConditionValues ==
    { Num(1), Num(2), Num(12), Str(<<"1">>), Str(<<"2">>), Str(<<"1", "2">>),
      Str(<<"a">>), Str(<<"b">>), Str(<<"a", "b">>), Str(<<>>), Null, NilMap }

PartDone(c, r) ==
    /\ call' = c
    /\ ret' = [st |-> r.st, et |-> r.et, v |-> r.v]
    /\ heap' = r.h
    /\ pre' = heap
    /\ phase' = IF r.st = "panic" THEN "panicked" ELSE "returned"
    /\ UNCHANGED <<src, dst, vals, mappers, errors, log, iter>>

CallAssertCondition ==
    /\ phase = "idle"
    /\ \E val1 \in ConditionValues : \E val2 \in ConditionValues :
       \E o \in DOMAIN FilterOps :
          PartDone([op |-> "assertCondition", val1 |-> val1, val2 |-> val2,
                    cond |-> FilterOps[o]],
                   Ok(heap, assertCondition(val1, val2, FilterOps[o])))

\* The segments whose get and put are called.
FilteredNodes ==
    { FilteredArray(A, key, op, value) :
         key \in {A, B},
         op \in {FilterOps[o] : o \in DOMAIN FilterOps} \cup {<<>>},
         value \in {Str(<<"1">>), Str(<<"a">>), Str(<<>>), Null} }

PartNodes ==
    { Field(A), Field(B), IndexedArray(B, <<0>>),
      IndexedArray(A, <<>>), IndexedArray(A, <<0>>), IndexedArray(A, <<1, 0>>),
      IndexedArray(A, <<0, -1, 99>>),
      SlicedArray(A, 0, 0), SlicedArray(A, 1, 0), SlicedArray(A, 0, 1),
      SlicedArray(A, 1, 2), SlicedArray(A, -1, 0), SlicedArray(A, 0, 5) }
    \cup FilteredNodes

CallNodeGet ==
    /\ phase = "idle"
    /\ \E n \in PartNodes :
          PartDone([op |-> "get", node |-> n, value |-> Null], get(n, heap, dst))

CallNodePut ==
    /\ phase = "idle"
    /\ \E n \in PartNodes : \E i \in DOMAIN vals :
          PartDone([op |-> "put", node |-> n, value |-> vals[i]],
                   put(n, heap, dst, vals[i]))

\* The tokens name[i,j,...] that list up to MaxIndices integers, with or
\* without a space after the commas.
MaxIndices == 2

IndexLists == UNION {[1..k -> {-1, 0, 1, 5, 12}] : k \in 1..MaxIndices}

IndexToken(name, indices, sep) ==
    name \o <<"[">>
         \o stringsJoin([i \in DOMAIN indices |->
                           IF indices[i] < 0 THEN <<"-">> \o natDigits(0 - indices[i])
                           ELSE natDigits(indices[i])], sep)
         \o <<"]">>

\* parseJsonPath on the path of one such token.
CallParseJsonPath ==
    /\ phase = "idle"
    /\ \E name \in Keys : \E indices \in IndexLists : \E sep \in {<<",">>, <<",", " ">>} :
          With(parseJsonPath(PathOf(<<IndexToken(name, indices, sep)>>)),
               LAMBDA parsed :
                  PartDone([op |-> "parseJsonPath", name |-> name, indices |-> indices,
                            path |-> PathOf(<<IndexToken(name, indices, sep)>>)],
                           [st |-> IF parsed.err = "" THEN "ok" ELSE "err",
                            et |-> parsed.err, v |-> parsed.nodes, h |-> heap]))

\* The transformers that are applied on their own, and the values they are
\* applied to.
PartTransformers ==
    {SplitTransformer(delim, index) : delim \in {Comma, <<>>, <<",", ",">>}, index \in -2..3}

TransformValues ==
    { Str(<<"1", ",", "2">>), Str(<<"a">>), Str(<<>>), Str(<<",">>),
      Str(<<"a", ",", ",", "b", ",">>), Num(1), Null, dst }

CallTransform ==
    /\ phase = "idle"
    /\ \E t \in PartTransformers : \E value \in TransformValues :
          PartDone([op |-> "Transform", Trsnfmr |-> t, value |-> value],
                   Transform(t, heap, value))

\* The structure pre-pass on its own, as Put calls it: on data that is not nil,
\* with the nodes of a well-formed path without recursive descent.
EnsuredPaths ==
    {p \in Paths : parseJsonPath(p).err = "" /\ ~jsonPathHasReccursiveDescent(p)}

CallEnsureDataStructure ==
    /\ phase = "idle"
    /\ dst.n # 0
    /\ \E jsonPath \in EnsuredPaths :
          With(ensureDataStrunctureFromNodes(heap, dst, parseJsonPath(jsonPath).nodes),
               LAMBDA r :
                  PartDone([op |-> "ensureDataStrunctureFromNodes", path |-> jsonPath],
                           IF r.panic THEN Panic(r.h) ELSE Ok(r.h, Null)))

NextNode ==
    \/ CallAssertCondition
    \/ CallNodeGet
    \/ CallNodePut
    \/ CallParseJsonPath
    \/ CallTransform
    \/ CallEnsureDataStructure

SpecNode == Init /\ [][NextNode]_vars

(***************************************************************************)
(* The iterators.  iterMapKeys starts a goroutine, the producer, that      *)
(* sends the keys of a map into an unbuffered channel and closes it; the   *)
(* loop of mapHasKey, the consumer, ranges over the channel.  Every caller *)
(* passes nil for quit.                                                    *)
(***************************************************************************)
\* sendOrQuit: the cases of its select that can proceed.  A send on an
\* unbuffered channel proceeds when a receiver waits; a receive on quit
\* proceeds when quit is closed, never when it is nil.
sendOrQuit(receiving, quit) ==
    (IF receiving THEN {"sent"} ELSE {}) \cup (IF quit = "closed" THEN {"quit"} ELSE {})

\* mapHasKey(dst, key) is called: iterMapKeys makes the channel and starts
\* the producer, and the loop waits for a first key.
CallMapHasKey ==
    /\ phase = "idle"
    /\ \E key \in AllKeys : \E keyOrder \in KeyOrders :
          /\ call' = [op |-> "mapHasKey", key |-> key]
          /\ iter' = [producer |-> "running", consumer |-> "receiving",
                      keys |-> iterMapKeys(heap, dst, keyOrder), out |-> "open",
                      quit |-> "nil", mkey |-> <<>>]
    /\ phase' = "iterating"
    /\ UNCHANGED <<heap, src, dst, vals, ret, pre, mappers, errors, log>>

\* The producer in sendOrQuit with the next key: the loop receives the key,
\* or the producer gives the key up for quit.
ProducerSend ==
    /\ iter.producer = "running"
    /\ iter.keys # <<>>
    /\ \E case \in sendOrQuit(iter.consumer = "receiving", iter.quit) :
          iter' = IF case = "sent"
                  THEN [iter EXCEPT !.keys = Tail(iter.keys), !.mkey = Head(iter.keys),
                                    !.consumer = "received"]
                  ELSE [iter EXCEPT !.keys = Tail(iter.keys)]
    /\ UNCHANGED <<heap, src, dst, vals, phase, call, ret, pre, mappers, errors, log>>

\* The producer has sent every key: it returns, and the deferred close(out)
\* runs.
ProducerClose ==
    /\ iter.producer = "running"
    /\ iter.keys = <<>>
    /\ iter' = [iter EXCEPT !.producer = "done", !.out = "closed"]
    /\ UNCHANGED <<heap, src, dst, vals, phase, call, ret, pre, mappers, errors, log>>

\* The body of the loop of mapHasKey: return true on the key, or receive again.
ConsumerCompare ==
    /\ iter.consumer = "received"
    /\ IF iter.mkey = call.key
       THEN /\ iter' = [iter EXCEPT !.consumer = "returned"]
            /\ ret' = [st |-> "ok", et |-> "", v |-> mkVal("bool", 1, <<>>, 0, 0)]
            /\ phase' = "returned"
       ELSE /\ iter' = [iter EXCEPT !.consumer = "receiving"]
            /\ UNCHANGED <<ret, phase>>
    /\ UNCHANGED <<heap, src, dst, vals, call, pre, mappers, errors, log>>

\* The loop of mapHasKey ends on the closed channel: return false.
ConsumerEnd ==
    /\ iter.consumer = "receiving"
    /\ iter.out = "closed"
    /\ iter' = [iter EXCEPT !.consumer = "returned"]
    /\ ret' = [st |-> "ok", et |-> "", v |-> mkVal("bool", 0, <<>>, 0, 0)]
    /\ phase' = "returned"
    /\ UNCHANGED <<heap, src, dst, vals, call, pre, mappers, errors, log>>

NextIter ==
    \/ CallMapHasKey
    \/ ProducerSend
    \/ ProducerClose
    \/ ConsumerCompare
    \/ ConsumerEnd

\* The scheduler runs every goroutine that can take a step.
SpecIter ==
    /\ Init
    /\ [][NextIter]_vars
    /\ WF_vars(ProducerSend)
    /\ WF_vars(ProducerClose)
    /\ WF_vars(ConsumerCompare)
    /\ WF_vars(ConsumerEnd)

(***************************************************************************)
(* What the claims speak of.                                               *)
(***************************************************************************)
\* The data of the call as it was before the call, and as it is after it.
DataBefore == Tree(pre, dst)

DataNow == Tree(heap, dst)

CallNodes == parseJsonPath(call.path).nodes

\* The path of the call is well formed and made of Field segments only.
OnlyFields ==
    /\ parseJsonPath(call.path).err = ""
    /\ \A i \in DOMAIN CallNodes : CallNodes[i].type = "node" /\ CallNodes[i].name \in Keys

\* The value v is an Object whose values along the names are absent, null,
\* Objects or Arrays of Objects, up to the parent of the last name.
RECURSIVE Vivifiable(_, _, _)
Vivifiable(h, v, names) ==
    /\ v.k = "obj"
    /\ v.n # 0
    /\ \/ Len(names) <= 1
       \/ LET child == mapLookup(h, v, names[1])
          IN  \/ child \in {Absent, Null}
              \/ Vivifiable(h, child, Tail(names))
              \/ /\ child.k = "arr"
                 /\ \A i \in 0..(sliceLen(child) - 1) :
                       Vivifiable(h, sliceAt(h, child, i), Tail(names))

CallNames == [i \in DOMAIN CallNodes |-> CallNodes[i].name]

\* The tree t is v, or an Array (of Arrays) whose every leaf is v.
RECURSIVE EveryLeafIs(_, _)
EveryLeafIs(t, v) ==
    \/ t = v
    \/ /\ t.k = "arr"
       /\ \A i \in DOMAIN t.e : EveryLeafIs(t.e[i], v)

\* C1: Get never mutates its input: whatever the data and the path, and
\* whether Get returns a value or an error, every cell of the data holds after
\* the call what it held before it.
GetNeverMutates ==
    (call.op = "Get" /\ phase \in {"returned", "panicked"}) =>
        /\ SubSeq(heap, 1, Len(pre)) = pre
        /\ DataNow = DataBefore

\* A Get that has returned a value it had to build: the heap has grown.
GetBuiltItsResult ==
    /\ call.op = "Get"
    /\ phase = "returned"
    /\ ret.st = "ok"
    /\ Len(heap) > Len(pre)
    /\ ret.v.n > Len(pre)

\* C2: whenever Put returns an error, the data is exactly as it was before
\* the call.
PutErrorLeavesData ==
    (call.op = "Put" /\ phase = "returned" /\ ret.st = "err") => DataNow = DataBefore

\* C3: for a non-nil Object and a path of Field segments whose intermediate
\* values are absent, null, Objects or Arrays of Objects, Put succeeds, and the
\* Get that follows it returns the value put, or an Array whose every leaf is it.
PutThenGet ==
    (OnlyFields /\ Vivifiable(pre, dst, CallNames)) =>
        /\ (call.op = "Put" /\ phase \in {"returned", "panicked"}) => ret.st = "ok"
        /\ (call.op = "GetAfterPut" /\ phase \in {"done", "panicked"}) =>
              /\ call.first = "ok"
              /\ ret.st = "ok"
              /\ EveryLeafIs(Tree(heap, ret.v), Tree(heap, call.value))

\* The path of the call has no recursive descent, filter or slice segment.
NoDescentFilterSlice ==
    /\ parseJsonPath(call.path).err = ""
    /\ \A i \in DOMAIN CallNodes :
          CallNodes[i].type \in {"node", "indexed"} /\ CallNodes[i].name # <<>>

\* The path of the call is made of Field segments, the last of which may be
\* a whole-array segment name[*].
FieldsThenWhole ==
    /\ parseJsonPath(call.path).err = ""
    /\ \A i \in DOMAIN CallNodes :
          /\ CallNodes[i].name \in Keys
          /\ \/ CallNodes[i].type = "node"
             \/ i = Len(CallNodes) /\ CallNodes[i].type = "indexed" /\ CallNodes[i].indices = <<>>

\* Every value the names lead through from v, before the last name, is an Object.
RECURSIVE ThroughObjects(_, _, _)
ThroughObjects(h, v, names) ==
    /\ v.k = "obj"
    /\ Len(names) > 1 => ThroughObjects(h, mapLookup(h, v, names[1]), Tail(names))

\* C4 as stated: for a path with no recursive descent, filter or slice on which
\* Get succeeds, Put of the value Get returned succeeds and leaves the data
\* unchanged.
RoundTrip ==
    (call.op = "PutBack" /\ NoDescentFilterSlice) =>
        /\ ret.st = "ok"
        /\ DataNow = DataBefore

\* C4: for a path of Field segments (the last may be a whole-array segment
\* name[*]) that leads through Objects only before its last segment, and on
\* which Get succeeds, Put of the value Get returned succeeds and leaves the
\* data unchanged.
RoundTripThroughObjects ==
    (call.op = "PutBack" /\ FieldsThenWhole /\ ThroughObjects(pre, dst, CallNames)) =>
        /\ ret.st = "ok"
        /\ DataNow = DataBefore

\* A round trip through a nested Object: the value got from under it was put back.
RoundTripDone ==
    /\ call.op = "PutBack"
    /\ phase = "done"
    /\ FieldsThenWhole
    /\ Len(CallNodes) >= 2
    /\ ThroughObjects(pre, dst, CallNames)
    /\ call.value # Null

\* The addresses of the Objects of the value v.
RECURSIVE ObjectsOf(_, _)
ObjectsOf(h, v) ==
    IF v.k = "obj" /\ v.n # 0
    THEN {v.n} \cup UNION {ObjectsOf(h, mapLookup(h, v, key)) : key \in AllKeys}
    ELSE IF isSlice(v)
    THEN UNION {ObjectsOf(h, sliceAt(h, v, i)) : i \in 0..(sliceLen(v) - 1)}
    ELSE {}

\* The values of the occurrences of the key at any depth of the value v.
RECURSIVE Occurrences(_, _, _)
RECURSIVE OccurrencesIn(_, _, _)
Occurrences(h, v, key) ==
    IF v.k = "obj" /\ v.n # 0
    THEN (IF mapHasKey(h, v, key) THEN <<Tree(h, mapLookup(h, v, key))>> ELSE <<>>)
         \o OccurrencesIn(h, [i \in 1..Len(DefaultKeyOrder) |->
                                 mapLookup(h, v, DefaultKeyOrder[i])], key)
    ELSE IF isSlice(v)
    THEN OccurrencesIn(h, sliceElems(h, v), key)
    ELSE <<>>

OccurrencesIn(h, vs, key) ==
    IF vs = <<>> THEN <<>>
    ELSE Occurrences(h, Head(vs), key) \o OccurrencesIn(h, Tail(vs), key)

Count(seq, x) == Cardinality({i \in DOMAIN seq : seq[i] = x})

SameBag(s1, s2) ==
    /\ Len(s1) = Len(s2)
    /\ \A i \in DOMAIN s1 : Count(s1, s1[i]) = Count(s2, s1[i])

DeepPath(key) == PathOf(<< <<>>, key >>)

\* C5: Put(data, "$..k", v) never fails and sets k to v in every Object of
\* data that directly contains k, at any depth, also in the Objects inside
\* Arrays and in the children of an Object that itself contains k.
DeepReplaceComplete ==
    \A key \in Keys :
        (call.op = "Put" /\ call.path = DeepPath(key) /\ phase \in {"returned", "panicked"}) =>
            /\ ret.st = "ok"
            /\ \A a \in ObjectsOf(pre, dst) :
                  mapHasKey(pre, ObjRef(a), key) =>
                      Tree(heap, mapLookup(heap, ObjRef(a), key)) = Tree(heap, call.value)

\* C6: Get(data, "$..k") returns a list, also for a single occurrence, that
\* holds the value of every occurrence of k at any depth of data.
DeepGetComplete ==
    \A key \in Keys :
        (call.op = "Get" /\ call.path = DeepPath(key) /\ phase \in {"returned", "panicked"}) =>
            /\ Occurrences(pre, dst, key) # <<>> => ret.st = "ok"
            /\ ret.st = "ok" =>
                  /\ ret.v.k = "arr"
                  /\ SameBag(Tree(heap, ret.v).e, Occurrences(pre, dst, key))

\* The errors Map would return for the mappers the log says have failed.
FailuresOf(entries) ==
    LET failed == SelectSeq(entries, LAMBDA l : l.st = "err")
    IN  [j \in DOMAIN failed |-> [Mapper |-> failed[j].Mapper, stage |-> failed[j].stage]]

ErrorsReturned == [j \in DOMAIN errors |-> [Mapper |-> errors[j].Mapper, stage |-> errors[j].stage]]

\* The destination of the mapper is a single Field: the key it names.
SingleField(mapper) ==
    LET parsed == parseJsonPath(mapper.DstJsonPath)
    IN  parsed.err = "" /\ Len(parsed.nodes) = 1 /\ parsed.nodes[1].type = "node"
        /\ parsed.nodes[1].name \in Keys

\* C7: Map attempts every mapper whatever became of the earlier ones; the
\* list it returns holds one error for each failing mapper, in order and with
\* the mapper's index, and nothing for the others; the Put of every successful
\* mapper has been applied to dst.
MapIsolation ==
    /\ phase # "panicked"
    /\ phase = "mapped" =>
          /\ Len(log) = Len(mappers)
          /\ \A i \in DOMAIN log : log[i].Mapper = i - 1
          /\ ErrorsReturned = FailuresOf(log)
          /\ \A i \in DOMAIN log :
                log[i].st = "ok" =>
                    /\ log[i].putCalled
                    /\ SingleField(mappers[i]) =>
                          log[i].dstAfter.m[parseJsonPath(mappers[i].DstJsonPath).nodes[1].name]
                              = log[i].value

\* The error Map holds for the mapper of index i.
ErrorOf(i) == errors[CHOOSE j \in DOMAIN errors : errors[j].Mapper = i]

\* C8: within one mapper, if Get on the source fails or the i-th
\* transformation fails, no later transformation is applied and Put is not
\* performed, so that dst is as the mapper found it; the failure of a
\* transformation is reported with the index i of that transformation.
FailureAbortsMapper ==
    \A i \in DOMAIN log :
        LET l == log[i]
            count == Len(l.steps)
        IN  /\ l.stage = "Get" =>
                  /\ l.steps = <<>>
                  /\ ~l.putCalled
                  /\ l.dstAfter = l.dstBefore
            /\ l.stage = "Transformation" =>
                  /\ count >= 1
                  /\ \A j \in 1..(count - 1) : l.steps[j].st = "ok"
                  /\ l.steps[count].st # "ok"
                  /\ ~l.putCalled
                  /\ l.dstAfter = l.dstBefore
                  /\ l.st = "err" =>
                        /\ ErrorOf(i - 1).stage = "Transformation"
                        /\ ErrorOf(i - 1).Transformation = count - 1
            /\ (l.stage = "" \/ l.stage = "Put") =>
                  /\ count = Len(mappers[i].Transformations)
                  /\ \A j \in 1..count : l.steps[j].st = "ok"

\* A mapper whose second transformation failed and left a third one unapplied.
ChainAborted ==
    \E i \in DOMAIN log :
        /\ log[i].stage = "Transformation"
        /\ log[i].st = "err"
        /\ Len(log[i].steps) = 2
        /\ Len(mappers[i].Transformations) = 3
        /\ log[i].dstBefore # O0

\* C9: a mapper whose destination path contains ".." fails with a
\* validation error before its Get on the source is attempted, and dst is as
\* the mapper found it.
DescentDestinationRejected ==
    \A i \in DOMAIN log :
        jsonPathHasReccursiveDescent(mappers[i].DstJsonPath) =>
            /\ log[i].st = "err"
            /\ log[i].stage = "Validation"
            /\ ErrorOf(i - 1).stage = "Validation"
            /\ ~log[i].got
            /\ ~log[i].putCalled
            /\ log[i].steps = <<>>
            /\ log[i].dstAfter = log[i].dstBefore
            /\ i = Len(log) => heap = pre

\* A mapper with ".." in its destination handled after a mapper that filled
\* the key its destination names.
DescentDestinationSeen ==
    \E i \in DOMAIN log :
        /\ jsonPathHasReccursiveDescent(mappers[i].DstJsonPath)
        /\ i > 1
        /\ log[i - 1].st = "ok"
        /\ A \in DOMAIN log[i].dstBefore.m

\* The outcome of the transformer on each element of the Array tree input.
ElementOutcomes(transformer, input) ==
    [j \in DOMAIN input.e |->
        LET built == Build(<<>>, input.e[j])
            r == Transform(transformer, built.h, built.v)
        IN  [st |-> r.st, output |-> IF r.st = "ok" THEN Tree(r.h, r.v) ELSE TNull]]

\* The outcome of the transformer on the whole of the tree input.
WholeOutcome(transformer, input) ==
    LET built == Build(<<>>, input)
        r == Transform(transformer, built.h, built.v)
    IN  [st |-> r.st, output |-> IF r.st = "ok" THEN Tree(r.h, r.v) ELSE TNull]

IsArrayTree(t) == t.k \in {"arr", "strs"}

\* C10: at each step of a chain, an Array with AsArray false yields the Array
\* of the same length of the transformer's results on its elements, or fails
\* with the index of the first element that fails; with AsArray true, or on a
\* value that is not an Array, the transformer is applied once to the whole
\* value; and each step takes the output of the step before it.
BroadcastOrWhole ==
    \A i \in DOMAIN log : \A j \in DOMAIN log[i].steps :
        LET step == log[i].steps[j]
            each == ElementOutcomes(step.Trsnfmr, step.input)
            failing == {x \in DOMAIN each : each[x].st # "ok"}
            first == CHOOSE x \in failing : \A y \in failing : x <= y
            whole == WholeOutcome(step.Trsnfmr, step.input)
        IN  /\ j > 1 => step.input = log[i].steps[j - 1].output
            /\ IF IsArrayTree(step.input) /\ ~step.AsArray
               THEN IF failing = {}
                    THEN /\ step.st = "ok"
                         /\ step.output.k = "arr"
                         /\ Len(step.output.e) = Len(step.input.e)
                         /\ \A x \in DOMAIN each : step.output.e[x] = each[x].output
                    ELSE /\ step.st = each[first].st
                         /\ step.st = "err" => step.elem = first - 1
               ELSE /\ step.st = whole.st
                    /\ step.elem = -1
                    /\ step.st = "ok" => step.output = whole.output

\* A chain that broadcast over an Array, then took the Array as a whole, then
\* applied a transformer once to the string that came out.
BroadcastThenWhole ==
    \E i \in DOMAIN log :
        /\ Len(log[i].steps) = 3
        /\ IsArrayTree(log[i].steps[1].input) /\ ~log[i].steps[1].AsArray
        /\ Len(log[i].steps[1].input.e) >= 1
        /\ IsArrayTree(log[i].steps[3].input) /\ log[i].steps[3].AsArray
        /\ log[i].steps[3].st = "ok"
        /\ ~IsArrayTree(log[i].steps[3].output)

\* The comparison under op of two values of which the first is less than the
\* second (lt), or equal to it (eq).
CompareUnder(op, lt, eq) ==
    CASE op = <<"<">> -> lt
      [] op = <<">">> -> ~lt /\ ~eq
      [] op = <<"<", "=">> -> lt \/ eq
      [] op = <<">", "=">> -> ~lt
      [] op = <<"=", "=">> -> eq
      [] op = <<"!", "=">> -> ~eq

\* The predicate of a filter as it is specified, on the value val1 of an item
\* and the literal val2.
ConditionHolds(val1, val2, op) ==
    IF toFloat64Ok(val1) /\ toFloat64Ok(val2)
    THEN CompareUnder(op, toFloat64(val1) < toFloat64(val2), toFloat64(val1) = toFloat64(val2))
    ELSE IF isString(val1) /\ isString(val2)
    THEN CompareUnder(op, strLess(val1.s, val2.s), val1.s = val2.s)
    ELSE FALSE

\* C11: the filter predicate is the numeric comparison under op when both
\* values coerce to numbers, otherwise the lexicographic comparison under the
\* same op when both are strings, otherwise false.
FilterPredicate ==
    call.op = "assertCondition" =>
        ret.v = ConditionHolds(call.val1, call.val2, call.cond)

\* The call is a put of a filtering segment on a parent whose value under the
\* segment's name is an Array of Objects.
FilteredPutCalled ==
    /\ call.op = "put"
    /\ call.node.type = "filtered"
    /\ DataBefore.k = "obj"
    /\ call.node.name \in DOMAIN DataBefore.m
    /\ DataBefore.m[call.node.name].k = "arr"
    /\ \A i \in DOMAIN DataBefore.m[call.node.name].e :
          DataBefore.m[call.node.name].e[i].k = "obj"

\* The item (a tree) has the key of the filter n and satisfies its predicate,
\* which a filter without operator or literal leaves to the presence of the key.
Matches(n, item) ==
    /\ n.key \in DOMAIN item.m
    /\ \/ n.op = <<>>
       \/ n.value = Null
       \/ ConditionHolds(mkVal(item.m[n.key].k, item.m[n.key].n, item.m[n.key].s, 0, 0),
                         n.value, n.op)

\* The item as the filtered put of newValue (a tree) has to leave it.
ItemAfterPut(n, item, newValue) ==
    IF Matches(n, item) THEN [item EXCEPT !.m[n.key] = newValue] ELSE item

\* C12: a filtered put sets the key to the new value on exactly the items that
\* have the key and satisfy the predicate; the other items, the other keys of
\* every item, and the length and order of the array are as they were.
FilteredPutFrame ==
    FilteredPutCalled =>
        /\ ret.st = "ok"
        /\ DataNow.m[call.node.name].k = "arr"
        /\ DataNow.m[call.node.name].e =
              [i \in DOMAIN DataBefore.m[call.node.name].e |->
                  ItemAfterPut(call.node, DataBefore.m[call.node.name].e[i],
                               Tree(pre, call.value))]

\* The path of the call does not start with "$." or ends with ".".
PathUnanchored ==
    \/ Len(call.path) < 2
    \/ call.path[1] # "$"
    \/ call.path[2] # "."
    \/ call.path[Len(call.path)] = "."

\* C13: Get and Put with a path that does not start with "$." or that ends
\* with "." return a path syntax error, whatever the data, and leave the data
\* as it was.
PathSyntaxRejected ==
    (call.op \in {"Get", "Put", "GetAfterPut", "PutBack"} /\ PathUnanchored) =>
        /\ ret.st = "err"
        /\ ret.et \in {"PathStart", "PathEnd"}
        /\ ret.v = Null
        /\ heap = pre

\* A Put with a path ending with "." on data that is not empty.
PathSyntaxSeen ==
    /\ call.op = "Put"
    /\ call.path = <<"$", ".", "a", ".">>
    /\ call.value = Num(9)
    /\ DataBefore = O1(A, O1(B, TNum(1)))
    /\ ret.et = "PathEnd"

\* The data of the call holds under name an Array of Objects that all have x.
ArrayOfObjectsWith(name, x) ==
    /\ DataBefore.k = "obj"
    /\ name \in DOMAIN DataBefore.m
    /\ DataBefore.m[name].k = "arr"
    /\ \A i \in DOMAIN DataBefore.m[name].e :
          DataBefore.m[name].e[i].k = "obj" /\ x \in DOMAIN DataBefore.m[name].e[i].m

\* C14: Get of "$.items[*].x", and of "$.items.x", on an Array items of N
\* Objects that all have x returns the Array of the N values of x, in the
\* order of the elements.
FanOut ==
    \A name \in Keys : \A x \in Keys :
       (/\ call.op = "Get"
        /\ call.path \in {PathOf(<<name \o <<"[", "*", "]">>, x>>), PathOf(<<name, x>>)}
        /\ ArrayOfObjectsWith(name, x)) =>
           /\ ret.st = "ok"
           /\ Tree(heap, ret.v) =
                 TArr([i \in DOMAIN DataBefore.m[name].e |-> DataBefore.m[name].e[i].m[x]])

\* A fan-out over two Objects has returned.
FanOutDone ==
    /\ call.op = "Get"
    /\ call.path = <<"$", ".", "a", "[", "*", "]", ".", "b">>
    /\ DataBefore = O1(A, TArr(<<O1(B, TNum(1)), O1(B, TNum(2))>>))
    /\ Tree(heap, ret.v) = TArr(<<TNum(1), TNum(2)>>)

\* C15: the get of a sliced segment with start = 0 and end = 0 returns the
\* addressed array itself, parent[name], with all its elements in order.
SliceUnsetIsWhole ==
    (/\ call.op = "get"
     /\ call.node.type = "sliced"
     /\ call.node.start = 0
     /\ call.node.end = 0
     /\ mapLookup(pre, dst, call.node.name).k = "arr") =>
        /\ ret.st = "ok"
        /\ ret.v = mapLookup(pre, dst, call.node.name)
        /\ Tree(heap, ret.v) = DataBefore.m[call.node.name]

\* C16 as it was stated: the path parser turns a token name[i,j,...], whose
\* integers may be negative, into an IndexedArray segment carrying exactly
\* those integers in the listed order.
ParsesEveryIndex ==
    call.op = "parseJsonPath" =>
        /\ ret.st = "ok"
        /\ ret.v = <<IndexedArray(call.name, call.indices)>>

\* C16: the path parser turns a token name[i,j,...] of non-negative integers
\* into an IndexedArray segment carrying exactly those integers in the listed
\* order, and rejects with a path syntax error a token that lists a negative
\* integer.
ParsesNaturalIndices ==
    call.op = "parseJsonPath" =>
        IF \A i \in DOMAIN call.indices : call.indices[i] >= 0
        THEN ret.st = "ok" /\ ret.v = <<IndexedArray(call.name, call.indices)>>
        ELSE ret.st = "err" /\ ret.et = "PathToken"

\* The parser has returned the segment of "$.a[12, 0]".
IndicesParsed ==
    /\ call.op = "parseJsonPath"
    /\ call.path = <<"$", ".", "a", "[", "1", "2", ",", " ", "0", "]">>
    /\ ret.v = <<IndexedArray(A, <<12, 0>>)>>

\* The tokens of the path of the call after "$", and those that are not "*".
CallTokens == Tail(splitJsonPath(call.path))

NamedTokens == SelectSeq(CallTokens, LAMBDA t : t # <<"*">>)

\* The outcomes of Get on the data of the call with the path jsonPath.
OutcomesOfGet(jsonPath) ==
    { [st |-> r.st, et |-> r.et, v |-> Tree(r.h, r.v)] :
         r \in {Get(pre, dst, jsonPath, keyOrder) : keyOrder \in KeyOrders} }

\* The call is a Get with a path that has a "*" segment and keeps a segment
\* that is not "*".
WildcardGet ==
    /\ call.op = "Get"
    /\ hasPrefix(call.path, <<"$", ".">>)
    /\ NamedTokens # CallTokens
    /\ NamedTokens # <<>>

\* C17 as it was stated: Get returns the same outcome as Get with all "*"
\* segments removed from the path.
WildcardIsNoOp ==
    WildcardGet =>
        [st |-> ret.st, et |-> ret.et, v |-> Tree(heap, ret.v)]
            \in OutcomesOfGet(PathOf(NamedTokens))

\* C17: Get returns the same outcome as Get with all "*" segments removed from
\* the path, when the last segment that is not "*" has a name (it is not the
\* empty segment of a recursive descent).
WildcardIsNoOpBeforeName ==
    (WildcardGet /\ NamedTokens[Len(NamedTokens)] # <<>>) =>
        [st |-> ret.st, et |-> ret.et, v |-> Tree(heap, ret.v)]
            \in OutcomesOfGet(PathOf(NamedTokens))

\* A Get through a wildcard has returned a value.
WildcardWalked ==
    /\ call.op = "Get"
    /\ call.path = <<"$", ".", "a", ".", "*", ".", "b">>
    /\ DataBefore = O1(A, O1(B, TNum(1)))
    /\ ret.st = "ok"
    /\ ret.v = Num(1)

\* The parts of the string s between the occurrences of the delimiter d; with
\* an empty delimiter, the characters of s.
RECURSIVE PartsOf(_, _)
PartsOf(s, d) ==
    IF d = <<>> THEN [i \in DOMAIN s |-> <<s[i]>>]
    ELSE IF \E i \in 1..(Len(s) - Len(d) + 1) : SubSeq(s, i, i + Len(d) - 1) = d
    THEN LET first == CHOOSE i \in 1..(Len(s) - Len(d) + 1) :
                         /\ SubSeq(s, i, i + Len(d) - 1) = d
                         /\ \A j \in 1..(i - 1) : SubSeq(s, j, j + Len(d) - 1) # d
         IN  <<SubSeq(s, 1, first - 1)>> \o PartsOf(SubSeq(s, first + Len(d), Len(s)), d)
    ELSE <<s>>

\* C18: Split of a string with index -1 returns all the parts in order, with
\* an index from 0 up to the number of parts that part, and with every other
\* index (at or above the number of parts, or below -1) a transform error.
SplitByIndex ==
    (call.op = "Transform" /\ call.Trsnfmr.kind = "Split" /\ isString(call.value)) =>
        LET parts == PartsOf(call.value.s, call.Trsnfmr.delim)
            index == call.Trsnfmr.index
        IN  IF index = -1
            THEN ret.st = "ok"
                 /\ Tree(heap, ret.v) = TStrs([i \in DOMAIN parts |-> TStr(parts[i])])
            ELSE IF 0 <= index /\ index < Len(parts)
            THEN ret.st = "ok" /\ ret.v = Str(parts[index + 1])
            ELSE ret.st = "err"

\* The heap that the structure pre-pass of the Put of the call leaves.
CallEnsured ==
    IF ~jsonPathHasReccursiveDescent(call.path) /\ dst.n # 0
    THEN ensureDataStrunctureFromNodes(pre, dst, CallNodes)
    ELSE PutDeepOk(pre)

\* What resolving all but the last segment of the call gives, the keys of the
\* maps being seen in the order keyOrder.
CallWalked(keyOrder) ==
    walkNodes(CallEnsured.h, dst, SubSeq(CallNodes, 1, Len(CallNodes) - 1), keyOrder)

\* The call is a Put that gets as far as resolving all but its last segment.
PutWalks ==
    /\ call.op = "Put"
    /\ parseJsonPath(call.path).err = ""
    /\ ~CallEnsured.panic
    /\ ~(/\ Len(CallNodes) >= 2
         /\ CallNodes[Len(CallNodes) - 1].name = <<>>
         /\ ~isArrayNode(CallNodes[Len(CallNodes)]))

\* The last segment's put of the call with the root data as parent, from the
\* heap h on.
LastPutAtRoot(h) == put(CallNodes[Len(CallNodes)], h, dst, call.value)

\* C19: when resolving all but the last segment fails with KeyNotFound, Put
\* does not return that error and applies the last segment's put with the root
\* data as parent; when it fails with a type error (the value is not a map, or
\* not an array), Put returns that error.
PutFallsBackToRoot ==
    PutWalks =>
        \E keyOrder \in OrdersFor(call.path) :
           LET walked == CallWalked(keyOrder)
           IN  /\ (walked.st = "err" /\ walked.et = "KeyNotFound") =>
                     /\ ret.st = LastPutAtRoot(walked.h).st
                     /\ ret.et = LastPutAtRoot(walked.h).et
                     /\ heap = LastPutAtRoot(walked.h).h
               /\ (walked.st = "err" /\ walked.et \in {"NotMap", "ValueNotArray"}) =>
                     /\ ret.st = "err"
                     /\ ret.et = walked.et
                     /\ heap = walked.h

\* A Put whose walk failed with KeyNotFound has put the value at the root.
PutFellBack ==
    /\ call.op = "Put"
    /\ call.path = <<"$", ".", "*", ".", "a", ".", "b">>
    /\ call.value = Num(9)
    /\ DataBefore = O0
    /\ CallWalked(DefaultKeyOrder).et = "KeyNotFound"
    /\ ret.st = "ok"
    /\ B \in DOMAIN DataNow.m
    /\ DataNow.m[B] = TNum(9)

\* The tree that the structure pre-pass has to leave of the tree t for the
\* segments nodes, as it is specified: an empty Object under the key of every
\* Field segment but the last whose key is absent or null, the chain being
\* applied to every element of an Array.
RECURSIVE Vivified(_, _)
Vivified(t, nodes) ==
    IF Len(nodes) <= 1 THEN t
    ELSE IF t.k = "arr" THEN [t EXCEPT !.e = [i \in DOMAIN t.e |-> Vivified(t.e[i], nodes)]]
    ELSE IF t.k # "obj" THEN t
    ELSE IF Head(nodes).name = <<"*">> THEN Vivified(t, Tail(nodes))
    ELSE IF Head(nodes).name \in DOMAIN t.m /\ t.m[Head(nodes).name] # TNull
    THEN [t EXCEPT !.m[Head(nodes).name] = Vivified(t.m[Head(nodes).name], Tail(nodes))]
    ELSE IF isArrayNode(Head(nodes)) THEN t
    ELSE [t EXCEPT !.m = [key \in DOMAIN t.m \cup {Head(nodes).name} |->
                             IF key = Head(nodes).name THEN Vivified(O0, Tail(nodes))
                             ELSE t.m[key]]]

\* C20: the structure pre-pass creates an empty Object for the intermediate
\* Field segments whose key is absent or null, and for nothing else (not for
\* the last segment, a wildcard or an array segment); it applies the chain to
\* every element of an Array and changes no value that is there and not null.
PrePassOnlyVivifies ==
    call.op = "ensureDataStrunctureFromNodes" =>
        /\ ret.st = "ok"
        /\ DataNow = Vivified(DataBefore, CallNodes)

\* The path of the call ends with ".." and a segment that is not an array
\* segment, after at least one more segment.
EndsWithDeepLeaf ==
    /\ parseJsonPath(call.path).err = ""
    /\ Len(CallNodes) >= 3
    /\ CallNodes[Len(CallNodes) - 1].name = <<>>
    /\ ~isArrayNode(CallNodes[Len(CallNodes)])

\* The name of the last segment of the path of the call.
LastName == CallNodes[Len(CallNodes)].name

DeepArrayPath ==
    /\ parseJsonPath(call.path).err = ""
    /\ Len(CallNodes) = 2
    /\ CallNodes[1].name = <<>>
    /\ isArrayNode(CallNodes[2])

\* What the array segment n gets from an Object holding under its name the
\* Array flat alone.
GetFromOne(n, h, flat) ==
    With(allocObj(h, [EmptyMap EXCEPT ![n.name] = flat]),
         LAMBDA withKey : With(get(n, withKey.h, withKey.v),
                               LAMBDA r : [st |-> r.st, et |-> r.et, t |-> Tree(r.h, r.v)]))

\* C22: Get of "$..name[...]" applies the index, slice or filter once, to the
\* one Array that Get of "$..name" returns (all the matches flattened and
\* concatenated), not to each matched Array apart: with the index 0 it gets
\* one element at most.
DeepArraySegmentOnce ==
    (call.op = "Get" /\ DeepArrayPath /\ phase \in {"returned", "panicked"}) =>
        /\ \E keyOrder \in KeyOrders :
              With(Get(pre, dst, DeepPath(LastName), keyOrder),
                   LAMBDA all :
                      IF all.st # "ok" THEN ret.st = all.st /\ ret.et = all.et
                      ELSE With(GetFromOne(CallNodes[2], all.h, all.v),
                                LAMBDA one : /\ ret.st = one.st
                                             /\ ret.et = one.et
                                             /\ Tree(heap, ret.v) = one.t))
        /\ (ret.st = "ok" /\ CallNodes[2].type = "indexed" /\ CallNodes[2].indices = <<0>>) =>
              /\ ret.v.k = "arr"
              /\ sliceLen(ret.v) <= 1

\* Get of "$..a[0]" has returned one element of data where two Arrays match.
DeepArraySegmentOnTwo ==
    /\ call.op = "Get"
    /\ DeepArrayPath
    /\ phase = "returned"
    /\ ret.st = "ok"
    /\ CallNodes[2].type = "indexed"
    /\ CallNodes[2].indices = <<0>>
    /\ sliceLen(ret.v) = 1
    /\ Cardinality({i \in DOMAIN Occurrences(pre, dst, LastName) :
                       Occurrences(pre, dst, LastName)[i].k = "arr"}) >= 2

\* What the get of the segment n returns on the element i of the Array arr:
\* "ok", the type of its error, or "panic" (also for an element that is not
\* an Object).
ElementGet(n, h, arr, i) ==
    IF sliceAt(h, arr, i).k # "obj" THEN "panic"
    ELSE With(get(n, h, sliceAt(h, arr, i)),
              LAMBDA r : IF r.st = "err" THEN r.et ELSE r.st)

\* The error of the first element of arr on which the get of n fails, when
\* the get of n has returned on all the elements before it; "" otherwise.
FirstElementError(n, h, arr) ==
    IF arr.k # "arr" THEN ""
    ELSE LET failing == {i \in 0..(sliceLen(arr) - 1) : ElementGet(n, h, arr, i) # "ok"}
         IN  IF failing = {} THEN ""
             ELSE With(CHOOSE i \in failing : \A j \in failing : i <= j,
                       LAMBDA i : IF ElementGet(n, h, arr, i) = "panic" THEN ""
                                  ELSE ElementGet(n, h, arr, i))

\* The error with which the segment i of the path of the call fails on an
\* element of the Array that the segments before it lead to, under keyOrder.
FanOutError(i, keyOrder) ==
    IF CallNodes[i].name \in {<<>>, <<"*">>} THEN ""
    ELSE With(Get(pre, dst, PathOf(SubSeq(CallTokens, 1, i - 1)), keyOrder),
              LAMBDA walked : IF walked.st # "ok" THEN ""
                              ELSE FirstElementError(CallNodes[i], walked.h, walked.v))

\* C23: when Get applies a segment to the elements of an Array and the get of
\* one element returns an error, Get returns the error of the first such
\* element and no value, never the Array of the values of the other elements.
FanOutFirstError ==
    (call.op = "Get" /\ parseJsonPath(call.path).err = "" /\ phase \in {"returned", "panicked"}) =>
        \A i \in 2..Len(CallNodes) :
           \A et \in {"KeyNotFound", "NotMap", "ValueNotArray"} :
              (\A keyOrder \in OrdersFor(call.path) : FanOutError(i, keyOrder) = et) =>
                  /\ ret.st = "err"
                  /\ ret.et = et
                  /\ ret.v = Null

\* Get has returned the error of the second element of an Array whose first
\* element has the field.
FanOutFailedLate ==
    /\ call.op = "Get"
    /\ call.path = PathOf(<<A, B>>)
    /\ phase = "returned"
    /\ ret.st = "err"
    /\ DataBefore.k = "obj"
    /\ A \in DOMAIN DataBefore.m
    /\ DataBefore.m[A].k = "arr"
    /\ Len(DataBefore.m[A].e) >= 2
    /\ DataBefore.m[A].e[1].k = "obj"
    /\ B \in DOMAIN DataBefore.m[A].e[1].m
    /\ DataBefore.m[A].e[2].k = "obj"
    /\ B \notin DOMAIN DataBefore.m[A].e[2].m

\* A sliced put has been called on an Object that holds an Array under the
\* name of the segment.
SlicedPutCalled ==
    /\ call.op = "put"
    /\ call.node.type = "sliced"
    /\ DataBefore.k = "obj"
    /\ call.node.name \in DOMAIN DataBefore.m
    /\ DataBefore.m[call.node.name].k = "arr"

\* The positions of the range that the sliced segment n resolves to on an
\* Array of len elements.
ResolvedRange(n, len) ==
    IF n.start # 0 /\ n.end # 0 THEN n.start..(n.end - 1)
    ELSE IF n.start # 0 THEN n.start..(len - 1)
    ELSE IF n.end # 0 THEN 0..(n.end - 1)
    ELSE {}

\* C24: a sliced put replaces with the new value exactly the elements at the
\* positions of the resolved range, [start, end), [start, len) or [0, end),
\* and leaves the other elements and the length of the array as they were;
\* with start = 0 and end = 0 it changes nothing; it returns success.
SlicedPutFrame ==
    SlicedPutCalled =>
        /\ ret.st = "ok"
        /\ DataNow =
              [DataBefore EXCEPT !.m[call.node.name].e =
                  [i \in DOMAIN DataBefore.m[call.node.name].e |->
                      IF (i - 1) \in ResolvedRange(call.node,
                                                   Len(DataBefore.m[call.node.name].e))
                      THEN Tree(pre, call.value)
                      ELSE DataBefore.m[call.node.name].e[i]]]

\* The walk of the first i segments of the path of the call.
WalkTo(i, keyOrder) == walkNodes(pre, dst, SubSeq(CallNodes, 1, i), keyOrder)

\* The outcome of a step of the walk, without the addresses.
StepOutcome(r) ==
    [st |-> r.st, et |-> r.et, t |-> IF r.st = "ok" THEN Tree(r.h, r.v) ELSE TNull]

\* The outcome of the segment n applied to the elements of arr one by one:
\* the Array of what its get returns on each, or the first failure.
ElementWise(n, h, arr) ==
    IF arr.k # "arr" THEN [st |-> "panic", et |-> "", t |-> TNull]
    ELSE LET failing == {i \in 0..(sliceLen(arr) - 1) : ElementGet(n, h, arr, i) # "ok"}
         IN  IF failing = {}
             THEN [st |-> "ok", et |-> "",
                   t |-> TArr([i \in 1..sliceLen(arr) |->
                                  With(get(n, h, sliceAt(h, arr, i - 1)),
                                       LAMBDA r : Tree(r.h, r.v))])]
             ELSE With(ElementGet(n, h, arr, CHOOSE i \in failing : \A j \in failing : i <= j),
                       LAMBDA e : IF e = "panic" THEN [st |-> "panic", et |-> "", t |-> TNull]
                                  ELSE [st |-> "err", et |-> e, t |-> TNull])

ProducersTerminate ==
    (iter.producer = "running") ~> (iter.producer = "done" /\ iter.out = "closed")

\* C27: Map leaves src as it was: src and dst are apart before the call, and
\* no mapper changes src, also not one that writes beneath a destination
\* which an earlier mapper has filled with an Object or an Array of src.
MapLeavesSrc ==
    [][Tree(heap', src') = Tree(heap, src)]_vars

\* The mappers i and j both wrote, with success, to the same destination, a
\* single Field, and no mapper came after j.
WroteSameField(i, j) ==
    /\ i < j
    /\ j = Len(mappers)
    /\ Len(log) = Len(mappers)
    /\ log[i].st = "ok"
    /\ log[j].st = "ok"
    /\ mappers[i].DstJsonPath = mappers[j].DstJsonPath
    /\ SingleField(mappers[j])

\* C28: Map applies the mappers in the order of the list, one after the
\* other, each one finding dst as the one before it left it; when two
\* mappers succeed in writing to the same destination, dst holds the value of
\* the later one.
MapInListOrder ==
    /\ \A i \in DOMAIN log : log[i].Mapper = i - 1
    /\ \A i \in DOMAIN log : i > 1 => log[i].dstBefore = log[i - 1].dstAfter
    /\ (log # <<>> /\ phase # "panicked") => DataNow = log[Len(log)].dstAfter
    /\ phase = "mapped" =>
          \A i \in DOMAIN log : \A j \in DOMAIN log :
             WroteSameField(i, j) =>
                DataNow.m[parseJsonPath(mappers[j].DstJsonPath).nodes[1].name] = log[j].value

\* Two mappers have written different values to the same destination.
LaterMapperWon ==
    /\ phase = "mapped"
    /\ Len(log) = 2
    /\ WroteSameField(1, 2)
    /\ log[1].value # log[2].value
    /\ DataNow.m[parseJsonPath(mappers[2].DstJsonPath).nodes[1].name] = log[2].value

\* C29: recursive descent on a key that occurs nowhere in the data is not an
\* error: Get(data, "$..k") returns an empty list and no error, whereas
\* Get(data, "$.k") on the same data returns a KeyNotFound error.
DeepAbsentIsEmpty ==
    \A key \in Keys :
        (call.op = "Get" /\ Occurrences(pre, dst, key) = <<>>) =>
            /\ call.path = DeepPath(key) =>
                  /\ ret.st = "ok"
                  /\ Tree(heap, ret.v) = TArr(<<>>)
            /\ call.path = PathOf(<<key>>) =>
                  /\ ret.st = "err"
                  /\ ret.et = "KeyNotFound"

\* The last segment of the path of the call is name[*], without recursive
\* descent before it, and Get with the path gets an Array of the data as it
\* was.
WholeArrayAddressed ==
    /\ parseJsonPath(call.path).err = ""
    /\ ~jsonPathHasReccursiveDescent(call.path)
    /\ CallNodes[Len(CallNodes)].type = "indexed"
    /\ CallNodes[Len(CallNodes)].indices = <<>>
    /\ With(Get(pre, dst, call.path, DefaultKeyOrder),
            LAMBDA r : r.st = "ok" /\ r.v.k = "arr")

=============================================================================
